---- MODULE Spec2Model ----
(***************************************************************************)
(* Verification model of the Verifexai document fraud-detection pipeline.  *)
(*                                                                         *)
(* Part A  the check aggregator of aws/common/utilities/utils.py:          *)
(*         choose_adaptive_k, pick_topk_indices_with_diversity,            *)
(*         aggregate_mean_top_k and _create_fraud_report.                  *)
(* Part B  the per-document pipeline of aws/analyze_file/                  *)
(*         lambda_function.py: _process_record and _run_checks, with the   *)
(*         persistence calls of DynamoDBManager.                           *)
(*                                                                         *)
(* Python lists are 0-based; sequences here are 1-based, so index i of the *)
(* source is position i+1 of the model.  Scores are integers: CheckResult  *)
(* declares score: int = Field(ge=0, le=100).                              *)
(***************************************************************************)
EXTENDS Integers, Sequences, FiniteSets, TLC

VARIABLES
    \* ---- Part A: one call of an aggregator function ----
    checks,      \* List[CheckResult] argument: sequence of [score, category]
    scores,      \* Iterable[float] argument of aggregate_mean_top_k: sequence of [tag, v]
    fn,          \* "idle" before the call, afterwards the name of the function that returned
    arg,         \* keyword arguments of the call: [k, diversity_first_k, t_material, min_k, max_k]
    K,           \* value returned by choose_adaptive_k
    idxs,        \* value returned by pick_topk_indices_with_diversity
    risk_score,  \* value returned by aggregate_mean_top_k
    \* ---- Part B: _process_record ----
    pc,          \* position of the main thread in _process_record / _run_checks
    fut,         \* state of the three futures submitted by _run_checks
    res,         \* what each check function returned (a list of CheckResult)
    yielded,     \* futures already handed out by as_completed, in completion order
    collected,   \* the local list `checks` of _run_checks
    report,      \* the FraudReport built by _create_fraud_report, or NoReport
    stored,      \* items put into the DynamoDB tables: subset of {"labels", "checks"}
    exc,         \* the exception propagating out of _process_record, or "none"
    runs,        \* how many times _create_fraud_report ran for this document
    \* ---- Part C: one call of a scorer, detector or configuration method ----
    call,        \* "idle" before the call, afterwards the name of the method called
    args,        \* the arguments of the call
    ret,         \* the value the call returned (NoRet while idle or when it raised)
    err          \* the exception the call raised, or "none"

aggVars  == <<checks, scores, fn, arg, K, idxs, risk_score>>
pipeVars == <<pc, fut, res, yielded, collected, report, stored, exc, runs>>
unitVars == <<call, args, ret, err>>
vars     == <<aggVars, pipeVars, unitVars>>

----------------------------------------------------------------------------
(* Bounds of the model *)

\* longest check list enumerated exhaustively
MaxChecks == 4
\* longest list of material checks (needed to reach K = 3: round(sqrt(7)) = 3)
MaxMaterial == 7
\* most low-scoring checks beside one dominant check
MaxOthers == 6
\* longest raw score list handed to aggregate_mean_top_k
MaxRaw == 4
\* largest k handed directly to a function
MaxK == 4

(* Program constants *)

\* _create_fraud_report: choose_adaptive_k(checks, t_material=25, min_k=1, max_k=5)
T_MATERIAL == 25
MIN_K == 1
MAX_K == 5
\* _create_fraud_report: pick_topk_indices_with_diversity(checks, K, diversity_first_k=3)
DIVERSITY_FIRST_K == 3
\* choose_adaptive_k: concentration_ratio: float = 0.55, in hundredths
CONCENTRATION_RATIO_PCT == 55
\* aggregate_mean_top_k: max(0.0, min(100.0, s))
SCORE_MIN == 0
SCORE_MAX == 100

\* enums.Category
Category == {"synthetic_media", "visual_analysis", "file_metadata",
             "cross_source_verification", "historical_patterns"}

----------------------------------------------------------------------------
(* Helpers *)

Min(a, b) == IF a <= b THEN a ELSE b
Max(a, b) == IF a >= b THEN a ELSE b
Range(s) == {s[i] : i \in 1..Len(s)}

RECURSIVE SumSeq(_)
SumSeq(s) == IF s = <<>> THEN 0 ELSE Head(s) + SumSeq(Tail(s))

\* s[:n]
Prefix(s, n) == SubSeq(s, 1, Min(n, Len(s)))

\* ceil-free rendering of int(round(math.sqrt(M))) for an integer M >= 0.
\* sqrt(M) is never of the form n + 1/2, so round() is round-to-nearest:
\* the n with (n - 1/2)^2 < M < (n + 1/2)^2, i.e. n*n - n < M <= n*n + n.
RoundSqrt(M) == IF M = 0 THEN 0 ELSE CHOOSE n \in 1..M : n * n - n < M /\ M <= n * n + n

\* int(round(n / d)) for integers n >= 0, d > 0.  Python 3 round() rounds a
\* tie to the even neighbour.  n / d is a correctly rounded double; for the
\* small n and d here it is an exact half only when 2 * (n % d) = d.
PyRound(n, d) ==
    LET q == n \div d
        r == n % d
    IN  IF 2 * r < d THEN q
        ELSE IF 2 * r > d THEN q + 1
        ELSE IF q % 2 = 0 THEN q ELSE q + 1

----------------------------------------------------------------------------
(* aggregate_mean_top_k *)

\* A raw score: a finite number (tag "num", value v), a non-finite float
\* (tag "nan": math.isfinite is False) or a non-number (tag "none": float()
\* raises TypeError).  Only "num" entries survive sanitising.
Num(v) == [tag |-> "num", v |-> v]
NaN    == [tag |-> "nan", v |-> 0]
NoneV  == [tag |-> "none", v |-> 0]

Clamp(v) == Max(SCORE_MIN, Min(SCORE_MAX, v))

\* the loop `for s in scores` that builds `clean`
RECURSIVE Clean(_)
Clean(raw) ==
    IF raw = <<>> THEN <<>>
    ELSE IF Head(raw).tag = "num" THEN <<Clamp(Head(raw).v)>> \o Clean(Tail(raw))
    ELSE Clean(Tail(raw))

RemoveAt(s, i) == SubSeq(s, 1, i - 1) \o SubSeq(s, i + 1, Len(s))

\* clean.sort(reverse=True)
RECURSIVE SortDesc(_)
SortDesc(s) ==
    IF s = <<>> THEN <<>>
    ELSE LET i == CHOOSE j \in 1..Len(s) : \A m \in 1..Len(s) : s[j] >= s[m]
         IN  <<s[i]>> \o SortDesc(RemoveAt(s, i))

\* the same loop with the clamp forgotten
RECURSIVE CleanNoClamp(_)
CleanNoClamp(raw) ==
    IF raw = <<>> THEN <<>>
    ELSE IF Head(raw).tag = "num" THEN <<Head(raw).v>> \o CleanNoClamp(Tail(raw))
    ELSE CleanNoClamp(Tail(raw))

aggregate_mean_top_k_no_clamp(raw, mean_top_k) ==
    LET clean == CleanNoClamp(raw)
    IN  IF clean = <<>> \/ mean_top_k <= 0 THEN 0
        ELSE LET k == Min(mean_top_k, Len(clean))
                 topk == Prefix(SortDesc(clean), k)
             IN  PyRound(SumSeq(topk), k)
aggregate_mean_top_k_trunc(raw, mean_top_k) ==
    LET clean == Clean(raw)
    IN  IF clean = <<>> \/ mean_top_k <= 0 THEN 0
        ELSE LET k == Min(mean_top_k, Len(clean))
                 topk == Prefix(SortDesc(clean), k)
             IN  SumSeq(topk) \div k
aggregate_mean_top_k(raw, mean_top_k) ==
    LET clean == Clean(raw)
    IN  IF clean = <<>> \/ mean_top_k <= 0 THEN 0
        ELSE LET k == Min(mean_top_k, Len(clean))
                 topk == Prefix(SortDesc(clean), k)
             IN  PyRound(SumSeq(topk), k)

----------------------------------------------------------------------------
(* choose_adaptive_k *)

Scores(cs) == [i \in 1..Len(cs) |-> cs[i].score]

\* material = [c for c in checks if isinstance(c.score, int) and c.score >= t_material]
RECURSIVE CountMaterial(_, _)
CountMaterial(cs, t) ==
    IF cs = <<>> THEN 0
    ELSE (IF Head(cs).score >= t THEN 1 ELSE 0) + CountMaterial(Tail(cs), t)

\* the comparison as the parameter's comment words it ("> this"), not as coded
choose_adaptive_k_strict(cs, t_material, min_k, max_k, ratio_pct) ==
    LET M == CountMaterial(cs, t_material)
    IN  IF M = 0 THEN min_k
        ELSE LET k0 == Max(min_k, Min(max_k, RoundSqrt(M)))
                 ordered == SortDesc(Scores(cs))
                 top == ordered[1]
                 L == Min(Max(2, k0 * 2), Len(ordered))
                 s == SumSeq(Prefix(ordered, L))
                 denom == IF s = 0 THEN 1 ELSE s
             IN  IF 100 * top > ratio_pct * denom THEN 1 ELSE k0
choose_adaptive_k_no_override(cs, t_material, min_k, max_k, ratio_pct) ==
    LET M == CountMaterial(cs, t_material)
    IN  IF M = 0 THEN min_k ELSE Max(min_k, Min(max_k, RoundSqrt(M)))
choose_adaptive_k(cs, t_material, min_k, max_k, ratio_pct) ==
    LET M == CountMaterial(cs, t_material)
    IN  IF M = 0 THEN min_k
        ELSE LET k0 == Max(min_k, Min(max_k, RoundSqrt(M)))
                 \* sorted(checks, key=lambda c: c.score, reverse=True)
                 ordered == SortDesc(Scores(cs))
                 top == ordered[1]
                 L == Min(Max(2, k0 * 2), Len(ordered))
                 s == SumSeq(Prefix(ordered, L))
                 denom == IF s = 0 THEN 1 ELSE s
             IN  \* (top / denom) >= concentration_ratio
                 IF 100 * top >= ratio_pct * denom THEN 1 ELSE k0

----------------------------------------------------------------------------
(* pick_topk_indices_with_diversity *)

\* scores compared as decimal text ("95" > "5" > "40" > "100")
TextKey(score) == IF score < 10 THEN score * 100 ELSE IF score < 100 THEN score * 10 ELSE score
BeforeAsText(cs, i, j) ==
    TextKey(cs[i].score) > TextKey(cs[j].score)
    \/ (TextKey(cs[i].score) = TextKey(cs[j].score) /\ i < j)

\* the sort key (-score, index) of indexed.sort
Before(cs, i, j) ==
    cs[i].score > cs[j].score \/ (cs[i].score = cs[j].score /\ i < j)

\* indexed.sort(key=lambda t: (-t[1].score, t[0])): the indices in rank order
RECURSIVE RankOrder(_, _)
RankOrder(cs, S) ==
    IF S = {} THEN <<>>
    ELSE LET b == CHOOSE i \in S : \A j \in S \ {i} : Before(cs, i, j)
         IN  <<b>> \o RankOrder(cs, S \ {b})

IndexOrder(cs) == [i \in 1..Len(cs) |-> i]
Indexed(cs) == RankOrder(cs, 1..Len(cs))

\* first pass: fill up to min(k, diversity_first_k) slots with unseen categories
RECURSIVE FirstPass(_, _, _, _, _, _)
FirstPass(cs, order, pos, chosen, seen_cats, limit) ==
    IF pos > Len(order) \/ Len(chosen) >= limit THEN chosen
    ELSE LET i == order[pos]
         IN  IF cs[i].category \notin seen_cats
             THEN FirstPass(cs, order, pos + 1, Append(chosen, i),
                            seen_cats \cup {cs[i].category}, limit)
             ELSE FirstPass(cs, order, pos + 1, chosen, seen_cats, limit)

\* second pass: fill the remaining slots by score
RECURSIVE SecondPass(_, _, _, _)
SecondPass(order, pos, chosen, k) ==
    IF pos > Len(order) THEN chosen
    ELSE IF order[pos] \notin Range(chosen)
         THEN LET c2 == Append(chosen, order[pos])
              IN  IF Len(c2) >= k THEN c2 ELSE SecondPass(order, pos + 1, c2, k)
         ELSE SecondPass(order, pos + 1, chosen, k)

pick_topk_no_second_pass(cs, k, diversity_first_k) ==
    IF k <= 0 \/ cs = <<>> THEN <<>>
    ELSE FirstPass(cs, Indexed(cs), 1, <<>>, {}, Min(k, diversity_first_k))
pick_topk_unsorted(cs, k, diversity_first_k) ==
    IF k <= 0 \/ cs = <<>> THEN <<>>
    ELSE LET indexed == IndexOrder(cs)
             chosen == FirstPass(cs, indexed, 1, <<>>, {}, Min(k, diversity_first_k))
         IN  IF Len(chosen) < k THEN SecondPass(indexed, 1, chosen, k) ELSE chosen
pick_topk_indices_with_diversity(cs, k, diversity_first_k) ==
    IF k <= 0 \/ cs = <<>> THEN <<>>
    ELSE LET indexed == Indexed(cs)
             chosen == FirstPass(cs, indexed, 1, <<>>, {}, Min(k, diversity_first_k))
         IN  IF Len(chosen) < k THEN SecondPass(indexed, 1, chosen, k) ELSE chosen

----------------------------------------------------------------------------
(* _create_fraud_report: K, the selected indices and Overall.risk_score *)

_create_fraud_report(cs) ==
    LET k == choose_adaptive_k(cs, T_MATERIAL, MIN_K, MAX_K, CONCENTRATION_RATIO_PCT)
        ix == pick_topk_indices_with_diversity(cs, k, DIVERSITY_FIRST_K)
        scores_for_agg == [i \in 1..Len(ix) |-> Num(cs[ix[i]].score)]
    IN  [K |-> k, idxs |-> ix, risk_score |-> aggregate_mean_top_k(scores_for_agg, k)]

----------------------------------------------------------------------------
(* Part A as a state machine: one call of one aggregator function.  Init    *)
(* draws the arguments, the action applies the function to them.            *)

SeqsUpTo(S, n) == UNION {[1..m -> S] : m \in 0..n}
SeqsBetween(S, lo, hi) == UNION {[1..m -> S] : m \in lo..hi}

Check(s, c) == [score |-> s, category |-> c]

NoArg == [k |-> 0, diversity_first_k |-> 0, t_material |-> 0, min_k |-> 0,
          max_k |-> 0, ratio_pct |-> 0]

\* Part B at rest while a Part A specification runs
PipeIdle ==
    /\ pc = "idle"
    /\ fut = <<>>
    /\ res = <<>>
    /\ yielded = <<>>
    /\ collected = <<>>
    /\ report = [made |-> FALSE, K |-> 0, risk_score |-> 0]
    /\ stored = {}
    /\ exc = "none"
    /\ runs = 0

\* Part C at rest while a Part A or Part B specification runs
NoRet == <<>>
UnitIdle ==
    /\ call = "idle"
    /\ args = <<>>
    /\ ret = NoRet
    /\ err = "none"

AggInit(cs, raw) ==
    /\ checks = cs
    /\ scores = raw
    /\ fn = "idle"
    /\ arg = NoArg
    /\ K = 0
    /\ idxs = <<>>
    /\ risk_score = 0
    /\ PipeIdle
    /\ UnitIdle

\* ---- _create_fraud_report ----

\* every list of at most MaxChecks checks over four scores and two categories
SmallChecks == SeqsUpTo({Check(s, c) : s \in {5, 25, 40, 95},
                                       c \in {"visual_analysis", "file_metadata"}}, MaxChecks)

\* the end-to-end scenario: scores [95, 40, 38, 12, 5], any five distinct categories
ScenarioScores == <<95, 40, 38, 12, 5>>
ScenarioChecks ==
    {[i \in 1..5 |-> Check(ScenarioScores[i], f[i])] :
        f \in {g \in [1..5 -> Category] : \A a, b \in 1..5 : a # b => g[a] # g[b]}}

\* longer lists of material checks, so that round(sqrt(M)) reaches 3
MaterialChecks ==
    SeqsBetween({Check(40, "visual_analysis"), Check(40, "file_metadata"),
                 Check(30, "visual_analysis")}, MaxChecks + 1, MaxMaterial)

ReportInputs == SmallChecks \cup ScenarioChecks \cup MaterialChecks

InitReport == \E cs \in ReportInputs : AggInit(cs, <<>>)

Call_create_fraud_report ==
    /\ fn = "idle"
    /\ LET r == _create_fraud_report(checks)
       IN  /\ K' = r.K
           /\ idxs' = r.idxs
           /\ risk_score' = r.risk_score
    /\ fn' = "_create_fraud_report"
    /\ arg' = [NoArg EXCEPT !.t_material = T_MATERIAL, !.min_k = MIN_K, !.max_k = MAX_K,
                            !.diversity_first_k = DIVERSITY_FIRST_K,
                            !.ratio_pct = CONCENTRATION_RATIO_PCT]
    /\ UNCHANGED <<checks, scores, pipeVars, unitVars>>

NextReport == Call_create_fraud_report
SpecReport == InitReport /\ [][NextReport]_vars

\* ---- choose_adaptive_k ----

\* one check scoring 100 at any position among n <= MaxOthers checks scoring 0 or 10
DominantScores ==
    {[i \in 1..(n + 1) |-> IF i = p THEN 100 ELSE o[IF i < p THEN i ELSE i - 1]] :
        <<n, p, o>> \in UNION {{<<m, q, f>> : q \in 1..(m + 1), f \in [1..m -> {0, 10}]} :
                               m \in 0..MaxOthers}}

KInputs ==
    {[i \in 1..Len(v) |-> Check(v[i], "file_metadata")] :
        v \in SeqsUpTo({0, 10, 25, 45, 55, 100}, MaxChecks) \cup DominantScores}
    \cup MaterialChecks

\* keyword arguments tried: the defaults and neighbours of them
KBounds == {<<1, 5>>, <<2, 5>>, <<1, 1>>, <<1, 2>>}
TMaterials == {25, 50}
RatioPcts == {55, 40}

InitChooseK == \E cs \in KInputs : AggInit(cs, <<>>)

Call_choose_adaptive_k ==
    /\ fn = "idle"
    /\ \E t \in TMaterials, b \in KBounds, r \in RatioPcts :
          /\ arg' = [NoArg EXCEPT !.t_material = t, !.min_k = b[1], !.max_k = b[2],
                                  !.ratio_pct = r]
          /\ K' = choose_adaptive_k(checks, t, b[1], b[2], r)
    /\ fn' = "choose_adaptive_k"
    /\ UNCHANGED <<checks, scores, idxs, risk_score, pipeVars, unitVars>>

NextChooseK == Call_choose_adaptive_k
SpecChooseK == InitChooseK /\ [][NextChooseK]_vars

\* ---- pick_topk_indices_with_diversity ----

PickInputs ==
    SeqsUpTo({Check(s, c) : s \in {40, 90},
                            c \in {"visual_analysis", "file_metadata",
                                   "cross_source_verification"}}, MaxChecks)

InitPick == \E cs \in PickInputs : AggInit(cs, <<>>)

Call_pick_topk_indices_with_diversity ==
    /\ fn = "idle"
    /\ \E k \in 0..MaxK, d \in 1..DIVERSITY_FIRST_K :
          /\ arg' = [NoArg EXCEPT !.k = k, !.diversity_first_k = d]
          /\ idxs' = pick_topk_indices_with_diversity(checks, k, d)
    /\ fn' = "pick_topk_indices_with_diversity"
    /\ UNCHANGED <<checks, scores, K, risk_score, pipeVars, unitVars>>

NextPick == Call_pick_topk_indices_with_diversity
SpecPick == InitPick /\ [][NextPick]_vars

\* ---- aggregate_mean_top_k ----

RawInputs ==
    SeqsUpTo({Num(-10), Num(5), Num(10), Num(80), Num(90), Num(150), NaN, NoneV}, MaxRaw)

InitMean == \E raw \in RawInputs : AggInit(<<>>, raw)

Call_aggregate_mean_top_k ==
    /\ fn = "idle"
    /\ \E k \in (-1)..MaxK :
          /\ arg' = [NoArg EXCEPT !.k = k]
          /\ risk_score' = aggregate_mean_top_k(scores, k)
    /\ fn' = "aggregate_mean_top_k"
    /\ UNCHANGED <<checks, scores, K, idxs, pipeVars, unitVars>>

NextMean == Call_aggregate_mean_top_k
SpecMean == InitMean /\ [][NextMean]_vars

----------------------------------------------------------------------------
(* Properties of Part A.  The reference values below are stated without the *)
(* sorts and loops of the code: a position i is among the n highest of a    *)
(* list v when fewer than n positions come before it in rank order.         *)

N == Len(checks)

\* 1 + the number of positions ranked before i (higher value, or equal and earlier)
RankPos(v, i) ==
    1 + Cardinality({j \in 1..Len(v) : v[j] > v[i] \/ (v[j] = v[i] /\ j < i)})

\* sum of the n highest values of v
TopSum(v, n) == SumSeq([i \in 1..Len(v) |-> IF RankPos(v, i) <= n THEN v[i] ELSE 0])

\* the rounded mean of the k highest scores of cs (0 for the empty list)
MeanTopK(cs, k) ==
    IF cs = <<>> \/ k <= 0 THEN 0
    ELSE PyRound(TopSum(Scores(cs), Min(k, Len(cs))), Min(k, Len(cs)))

PairwiseDistinctCategories(cs, S) ==
    \A a, b \in S : a # b => cs[a].category # cs[b].category

Reported == fn = "_create_fraud_report"

\* C1: for the checks scoring [95, 40, 38, 12, 5] in five distinct categories,
\* _create_fraud_report computes K = 2, selects exactly the checks scoring 95
\* and 40 (positions 1 and 2) and yields risk_score 68.
C1_Scenario ==
    (Reported /\ Scores(checks) = ScenarioScores
              /\ PairwiseDistinctCategories(checks, 1..N))
    => (K = 2 /\ Range(idxs) = {1, 2} /\ Len(idxs) = 2 /\ risk_score = 68)

C1_Witness ==
    /\ Reported
    /\ Scores(checks) = ScenarioScores
    /\ PairwiseDistinctCategories(checks, 1..N)
    /\ risk_score = 68

SwapAdjacent(cs, i) ==
    [j \in 1..Len(cs) |-> IF j = i THEN cs[i + 1] ELSE IF j = i + 1 THEN cs[i] ELSE cs[j]]

\* C3: _create_fraud_report yields the same K and the same risk_score for
\* every permutation of the check list.  Each input family is closed under
\* permutation and every permutation is a product of exchanges of neighbours,
\* so it is enough that no exchange of two neighbours changes the result of
\* any list.
C3_OrderIndependent ==
    Reported =>
        \A i \in 1..(N - 1) :
            LET r == _create_fraud_report(SwapAdjacent(checks, i))
            IN  r.K = K /\ r.risk_score = risk_score

\* two neighbours tie on score in different categories, and exchanging them
\* changes which checks are selected
C3_Witness ==
    /\ Reported
    /\ N >= 3
    /\ \E i \in 1..(N - 1) :
          /\ checks[i].score = checks[i + 1].score
          /\ checks[i].category # checks[i + 1].category
          /\ LET r == _create_fraud_report(SwapAdjacent(checks, i))
             IN  {checks[j] : j \in Range(idxs)}
                   # {SwapAdjacent(checks, i)[j] : j \in Range(r.idxs)}

ChoseK == fn = "choose_adaptive_k"

C7_DominantCheck ==
    (/\ ChoseK
     /\ arg.t_material > 10
     /\ Cardinality({i \in 1..N : checks[i].score = 100}) = 1
     /\ \A i \in 1..N : checks[i].score = 100 \/ checks[i].score <= 10)
    => K = 1

\* the override, not the base K, decides: min_k = 2 and MaxOthers other checks
C7_Witness ==
    /\ ChoseK
    /\ arg.min_k = 2
    /\ N >= 6
    /\ Cardinality({i \in 1..N : checks[i].score = 100}) = 1
    /\ \A i \in 1..N : checks[i].score = 100 \/ checks[i].score = 10
    /\ K = 1

Picked == fn = "pick_topk_indices_with_diversity"

\* C5 as claimed: the checks are ranked by score descending, ties by input
\* index, and the first min(k, diversity_first_k) chosen indices (as many as
\* the list can supply) are, in rank order, the highest-ranked checks each
\* of a category not yet chosen.
C5_FirstSlotsAllDistinct ==
    Picked =>
        LET v == Scores(checks)
            q == Min(Min(arg.k, arg.diversity_first_k), N)
        IN  /\ Len(idxs) >= q
            /\ \A a, b \in 1..q : a < b =>
                   /\ RankPos(v, idxs[a]) < RankPos(v, idxs[b])
                   /\ checks[idxs[a]].category # checks[idxs[b]].category

\* C5 as amended: with `leaders` the checks that are the highest ranked of
\* their category, the first p = min(k, diversity_first_k, number of distinct
\* categories) chosen indices are the p highest-ranked leaders in rank order;
\* the slots still free up to k are filled in rank order from the checks not
\* already chosen; min(k, N) indices are chosen in all.
C5_DiversityThenRank ==
    Picked =>
        LET v == Scores(checks)
            leaders == {i \in 1..N : \A j \in 1..N :
                           (j # i /\ checks[j].category = checks[i].category)
                               => RankPos(v, i) < RankPos(v, j)}
            p == Min(Min(arg.k, arg.diversity_first_k), Cardinality(leaders))
            first == {idxs[a] : a \in 1..Min(p, Len(idxs))}
        IN  /\ Len(idxs) = Min(arg.k, N)
            /\ Len(idxs) >= p
            \* the p best leaders, in rank order
            /\ first \subseteq leaders
            /\ \A i \in leaders \ first : \A j \in first : RankPos(v, j) < RankPos(v, i)
            /\ \A a, b \in 1..p : a < b => RankPos(v, idxs[a]) < RankPos(v, idxs[b])
            \* then the best of the rest, in rank order
            /\ \A a \in (p + 1)..Len(idxs) : idxs[a] \in (1..N) \ first
            /\ \A a, b \in (p + 1)..Len(idxs) :
                   a < b => RankPos(v, idxs[a]) < RankPos(v, idxs[b])
            /\ \A i \in (1..N) \ Range(idxs) : \A a \in (p + 1)..Len(idxs) :
                   RankPos(v, idxs[a]) < RankPos(v, i)

\* a call in which the categories run out before the diversity slots do: the
\* first pass skips a higher score, fills two of its three slots, and the
\* second pass fills the other two
C5_Witness ==
    /\ Picked
    /\ arg.k = 4
    /\ arg.diversity_first_k = 3
    /\ Len(idxs) = 4
    /\ Cardinality({checks[i].category : i \in 1..N}) = 2
    /\ RankPos(Scores(checks), idxs[2]) > RankPos(Scores(checks), idxs[3])

Averaged == fn = "aggregate_mean_top_k"

\* C6: aggregate_mean_top_k clamps every valid score into [0,100], takes the
\* min(K, count) largest and returns round(mean), an integer in [0,100];
\* it returns 0 when there is no valid score; ([90,80,10,5], 2) gives 85,
\* ([], 3) gives 0 and ([150,-10], 1) gives 100.
C6_MeanTopK ==
    Averaged =>
        LET valid == {i \in 1..Len(scores) : scores[i].tag = "num"}
            count == Cardinality(valid)
            \* the clamped valid scores, an invalid one counting below all of them
            v == [i \in 1..Len(scores) |->
                     IF i \in valid
                     THEN (IF scores[i].v < 0 THEN 0
                           ELSE IF scores[i].v > 100 THEN 100 ELSE scores[i].v)
                     ELSE -1]
            k == Min(arg.k, count)
        IN  /\ risk_score \in 0..100
            /\ count = 0 => risk_score = 0
            /\ (count > 0 /\ arg.k >= 1) => risk_score = PyRound(TopSum(v, k), k)
            /\ (scores = <<Num(90), Num(80), Num(10), Num(5)>> /\ arg.k = 2) => risk_score = 85
            /\ (scores = <<>> /\ arg.k = 3) => risk_score = 0
            /\ (scores = <<Num(150), Num(-10)>> /\ arg.k = 1) => risk_score = 100

C6_Witness ==
    /\ Averaged
    /\ scores = <<Num(150), Num(-10)>>
    /\ arg.k = 1
    /\ risk_score = 100

\* ---- _create_fraud_report on lists whose scores sit around t_material ----

\* longest list of this family
MaxRaisedChecks == 3

RaisedInputs ==
    SeqsUpTo({Check(s, c) : s \in {0, 25, 30, 95},
                           c \in {"visual_analysis", "file_metadata"}}, MaxRaisedChecks)

InitRaised == \E cs \in RaisedInputs : AggInit(cs, <<>>)

SpecRaised == InitRaised /\ [][NextReport]_vars

\* the check list with the score of check i raised to s
WithScore(cs, i, s) == [cs EXCEPT ![i].score = s]
\* the scores a check can be raised to
RaisedScores == {5, 25, 40, 95, 100}

\* C27: raising the score of any single check, all other checks and all
\* categories unchanged, never lowers the risk_score computed by
\* _create_fraud_report.
C27_MonotoneInEachCheck ==
    Reported =>
        \A i \in 1..Len(checks) : \A s \in RaisedScores :
            s > checks[i].score =>
                _create_fraud_report(WithScore(checks, i, s)).risk_score >= risk_score

\* C27, amended: raising the score of a single check never lowers the
\* risk_score when choose_adaptive_k returns the same K for the raised
\* list; it can lower it only by changing K.
C27_MonotoneAtFixedK ==
    Reported =>
        \A i \in 1..Len(checks) : \A s \in RaisedScores :
            s > checks[i].score =>
                LET r == _create_fraud_report(WithScore(checks, i, s))
                IN  r.K = K => r.risk_score >= risk_score

\* a check outside the selection is raised into it: K stays 2 and the
\* risk_score goes up
C27_Witness ==
    /\ Reported
    /\ K = 2
    /\ \E i \in 1..Len(checks) : \E s \in RaisedScores :
          /\ s > checks[i].score
          /\ i \notin Range(idxs)
          /\ LET r == _create_fraud_report(WithScore(checks, i, s))
             IN  r.K = K /\ i \in Range(r.idxs) /\ r.risk_score > risk_score

\* raising one check makes a second check material: K goes from 1 to 2 and
\* the risk_score goes down
C27_LoweredByK ==
    /\ Reported
    /\ K = 1
    /\ \E i \in 1..Len(checks) : \E s \in RaisedScores :
          /\ s > checks[i].score
          /\ LET r == _create_fraud_report(WithScore(checks, i, s))
             IN  r.K = 2 /\ r.risk_score < risk_score

----------------------------------------------------------------------------
(* Part B: _process_record and _run_checks.                                 *)
(*                                                                          *)
(* The main thread runs _process_record; _run_checks submits the three      *)
(* check functions to a ThreadPoolExecutor(max_workers=3), so all three run *)
(* concurrently, and collects them with as_completed.  future.result()      *)
(* re-raises what the check raised; leaving the `with` block calls          *)
(* executor.shutdown(wait=True), which waits for the futures still running. *)
(* Every call of a collaborator (OCR, the field extractor, a check, a       *)
(* DynamoDB put_item) either returns or raises.                             *)

\* check_functions, in list order
FONT == 1
METADATA == 2
TEXT == 3
CheckFns == {FONT, METADATA, TEXT}

\* What a check function may return.  font_anomalies_check returns one
\* CheckResult, analyze_metadata_check and text_analysis_check a list
\* (empty when the scorer is missing or fails, or for FileType.Other).
CheckOutputs(i) ==
    IF i = FONT THEN {<<Check(0, "visual_analysis")>>, <<Check(80, "visual_analysis")>>}
    ELSE IF i = METADATA
         THEN {<<>>, <<Check(30, "file_metadata")>>,
               <<Check(20, "file_metadata"), Check(90, "file_metadata")>>}
    ELSE {<<>>, <<Check(50, "cross_source_verification")>>}

NoReport == [made |-> FALSE, K |-> 0, risk_score |-> 0]

AggIdle ==
    /\ checks = <<>>
    /\ scores = <<>>
    /\ fn = "idle"
    /\ arg = NoArg
    /\ K = 0
    /\ idxs = <<>>
    /\ risk_score = 0

Init ==
    /\ pc = "ocr"
    /\ fut = [i \in CheckFns |-> "unsubmitted"]
    /\ res = [i \in CheckFns |-> <<>>]
    /\ yielded = <<>>
    /\ collected = <<>>
    /\ report = NoReport
    /\ stored = {}
    /\ exc = "none"
    /\ runs = 0
    /\ AggIdle
    /\ UnitIdle

\* an exception leaves _process_record; lambda_handler logs and re-raises it
Raise(what) ==
    /\ pc' = "raised"
    /\ exc' = what

\* pages_data = ocr_processor.extract(local_file_path)
OcrExtract ==
    /\ pc = "ocr"
    /\ \/ pc' = "extract" /\ exc' = exc
       \/ Raise("ocr")
    /\ UNCHANGED <<fut, res, yielded, collected, report, stored, runs, aggVars, unitVars>>

\* label_data = text_extractor.extract(local_file_path, file_type, pages_data)
TextExtract ==
    /\ pc = "extract"
    /\ \/ pc' = "save_labels" /\ exc' = exc
       \/ Raise("extract")
    /\ UNCHANGED <<fut, res, yielded, collected, report, stored, runs, aggVars, unitVars>>

\* A DynamoDBManager.save_* call: put_item stores the item; a botocore
\* ClientError is caught and logged, the call returns None; anything else
\* propagates to the caller (a botocore error that is no ClientError, a
\* TypeError of convert_floats or of the call's own keyword arguments).
PutOutcomes == {"stored", "ClientError", "OtherError"}
SaveRaises(outcome) == outcome = "OtherError"

\* dynamodb_manager.save_labels(...)
SaveLabels ==
    /\ pc = "save_labels"
    /\ \E o \in PutOutcomes :
          IF SaveRaises(o)
          THEN Raise("save_labels") /\ stored' = stored
          ELSE /\ pc' = "submit"
               /\ exc' = exc
               /\ stored' = (IF o = "stored" THEN stored \cup {"labels"} ELSE stored)
    /\ UNCHANGED <<fut, res, yielded, collected, report, runs, aggVars, unitVars>>

\* futures = [executor.submit(fn) for fn in check_functions]
Submit ==
    /\ pc = "submit"
    /\ fut' = [i \in CheckFns |-> "running"]
    /\ pc' = "as_completed"
    /\ UNCHANGED <<res, yielded, collected, report, stored, exc, runs, aggVars, unitVars>>

\* a worker thread: the check function returns
CheckReturns(i) ==
    /\ fut[i] = "running"
    /\ \E out \in CheckOutputs(i) : res' = [res EXCEPT ![i] = out]
    /\ fut' = [fut EXCEPT ![i] = "returned"]
    /\ UNCHANGED <<pc, yielded, collected, report, stored, exc, runs, aggVars, unitVars>>

\* a worker thread: the check function raises (font_anomalies_check: no font
\* metadata and no loadable image; any check: an upstream failure not caught)
CheckRaises(i) ==
    /\ fut[i] = "running"
    /\ fut' = [fut EXCEPT ![i] = "raised"]
    /\ UNCHANGED <<pc, res, yielded, collected, report, stored, exc, runs, aggVars, unitVars>>

\* future.result(): the returned value, or the exception re-raised
FutureResultSwallowed(i) == [raises |-> FALSE, value |-> res[i]]
FutureResult(i) == [raises |-> fut[i] = "raised", value |-> res[i]]

\* one iteration of `for future in as_completed(futures)`
AsCompleted(i) ==
    /\ pc = "as_completed"
    /\ fut[i] \in {"returned", "raised"}
    /\ i \notin Range(yielded)
    /\ yielded' = Append(yielded, i)
    /\ LET r == FutureResult(i)
       IN  IF r.raises
           THEN /\ pc' = "shutdown"
                /\ exc' = "check"
                /\ collected' = collected
           ELSE \* checks.extend(result) / checks.append(result)
                /\ collected' = collected \o r.value
                /\ pc' = pc
                /\ exc' = exc
    /\ UNCHANGED <<fut, res, report, stored, runs, aggVars, unitVars>>

\* as_completed is exhausted once every future has been yielded
AllYielded == Range(yielded) = CheckFns

\* the loop ends, the `with` block is left, _run_checks returns checks
RunChecksReturns ==
    /\ pc = "as_completed"
    /\ AllYielded
    /\ pc' = "create_report"
    /\ UNCHANGED <<fut, res, yielded, collected, report, stored, exc, runs, aggVars, unitVars>>

\* the exception leaves the `with` block: shutdown(wait=True) first waits
\* for the futures still running, then the exception propagates
Shutdown ==
    /\ pc = "shutdown"
    /\ \A i \in CheckFns : fut[i] # "running"
    /\ pc' = "raised"
    /\ UNCHANGED <<fut, res, yielded, collected, report, stored, exc, runs, aggVars, unitVars>>

\* fraud_report = _create_fraud_report(checks=checks, ...)
CreateReport ==
    /\ pc = "create_report"
    /\ LET r == _create_fraud_report(collected)
       IN  report' = [made |-> TRUE, K |-> r.K, risk_score |-> r.risk_score]
    /\ runs' = runs + 1
    /\ pc' = "save_check_results"
    /\ UNCHANGED <<fut, res, yielded, collected, stored, exc, aggVars, unitVars>>

\* dynamodb_manager.save_check_results(...), then the report is logged
SaveCheckResults ==
    /\ pc = "save_check_results"
    /\ \E o \in PutOutcomes :
          IF SaveRaises(o)
          THEN Raise("save_check_results") /\ stored' = stored
          ELSE /\ pc' = "done"
               /\ exc' = exc
               /\ stored' = (IF o = "stored" THEN stored \cup {"checks"} ELSE stored)
    /\ UNCHANGED <<fut, res, yielded, collected, report, runs, aggVars, unitVars>>

Next ==
    \/ OcrExtract
    \/ TextExtract
    \/ SaveLabels
    \/ Submit
    \/ \E i \in CheckFns : CheckReturns(i)
    \/ \E i \in CheckFns : CheckRaises(i)
    \/ \E i \in CheckFns : AsCompleted(i)
    \/ RunChecksReturns
    \/ Shutdown
    \/ CreateReport
    \/ SaveCheckResults

Spec == Init /\ [][Next]_vars

----------------------------------------------------------------------------
(* Properties of Part B *)

Terminated == pc \in {"done", "raised"}

\* the results of the futures yielded so far, in the order they were yielded
RECURSIVE Gathered(_)
Gathered(ys) == IF ys = <<>> THEN <<>> ELSE res[Head(ys)] \o Gathered(Tail(ys))

\* C8: the fraud report is created only after every submitted check function
\* has completed, from the results of all of them; if any check raises, no
\* Overall risk score is computed and no fraud report is persisted.
C8_NoPartialAggregation ==
    /\ report.made =>
          /\ \A i \in CheckFns : fut[i] = "returned"
          /\ Range(yielded) = CheckFns
          /\ collected = Gathered(yielded)
          /\ Len(collected) = Len(res[FONT]) + Len(res[METADATA]) + Len(res[TEXT])
    /\ (\E i \in CheckFns : fut[i] = "raised") =>
          /\ ~report.made
          /\ runs = 0
          /\ "checks" \notin stored
          /\ pc \notin {"create_report", "save_check_results", "done"}

\* a check raised after other checks' results had been collected, and the
\* record ended without a report
C8_Witness ==
    /\ pc = "raised"
    /\ \E i \in CheckFns : fut[i] = "raised"
    /\ collected # <<>>
    /\ ~report.made

\* C9 as claimed: when one check function raises and the others return, the
\* results of the others are still aggregated into an Overall risk score.
C9_OthersStillAggregated ==
    (/\ Terminated
     /\ fut[FONT] = "raised"
     /\ fut[METADATA] = "returned"
     /\ fut[TEXT] = "returned")
    => report.made

\* C10 as claimed: a failure while persisting (save_labels or
\* save_check_results) never prevents the fraud report from being computed,
\* never changes the risk_score and never makes scoring run again.
C10_PersistenceFireAndForget ==
    (Terminated /\ exc \in {"none", "save_labels", "save_check_results"})
    => (/\ report.made
        /\ runs = 1
        /\ report.risk_score = _create_fraud_report(collected).risk_score)

----------------------------------------------------------------------------
(* Part C.1: PDFMetadataScorer._score_metadata                              *)
(* (aws/analyze_file/metadata/pdf_metadata_scorer.py, metadata_utils.py).   *)
(*                                                                          *)
(* A datetime is an instant counted in ticks, TicksPerDay ticks to the day, *)
(* so that a signing time can fall inside a day while an invoice date is a  *)
(* midnight.  Dt(t) is a parsed datetime, NoneV an absent or unparsable     *)
(* one, Bad a string no parser accepts.  Python's None, True and False in a *)
(* payload field are the strings "None", "True" and "False"; "0" is the     *)
(* integer zero.                                                            *)

\* ticks in a day
TicksPerDay == 2

MAX_DATE_DIFF_DAYS == 60
CATASTROPHIC_INTEGRITY == 85
FRAUD_FLOOR_TIME == 90
\* the weights of an untrusted and of an indeterminate chain exchanged
SIGNATURES_WEIGHTS_EXCHANGED ==
    [untrusted_chain |-> 10, indeterminate_chain |-> 25, not_cover_entire |-> 8,
     docmdp_fail |-> 8, missing_sign_time |-> 15]
SIGNATURES_WEIGHTS ==
    [untrusted_chain |-> 25, indeterminate_chain |-> 10, not_cover_entire |-> 8,
     docmdp_fail |-> 8, missing_sign_time |-> 15]

Dt(t) == [tag |-> "dt", v |-> t]
Bad   == [tag |-> "bad", v |-> 0]
IsDt(x) == x.tag = "dt"
Midnight(day) == Dt(day * TicksPerDay)

Abs(x) == IF x < 0 THEN 0 - x ELSE x

\* (a - b).days: timedelta normalises to days + a non-negative remainder,
\* so .days is the floor of the difference in days
Days(a, b) == (a.v - b.v) \div TicksPerDay

\* bool(x)
PyBool(x) == x \notin {"None", "False", "0"}

\* _safe_bool: None stays None, anything else goes through bool()
_safe_bool(x) == IF x = "None" THEN "None" ELSE IF PyBool(x) THEN "True" ELSE "False"

\* _parse_sign_dt: fromisoformat, then _parse_pdf_date, else None
_parse_sign_dt(s) == IF IsDt(s.signing_time) THEN s.signing_time ELSE NoneV

\* the date block of _score_metadata (creation_date / modification_date)
DateScore(creation_dt, modification_dt, invoice_dt) ==
    LET s1 == IF IsDt(creation_dt) /\ IsDt(modification_dt)
                 /\ modification_dt.v < creation_dt.v
              THEN 80
              ELSE IF IsDt(invoice_dt) /\ IsDt(creation_dt)
                      /\ Abs(Days(creation_dt, invoice_dt)) > MAX_DATE_DIFF_DAYS
                   THEN 60 ELSE 0
        s2 == IF IsDt(invoice_dt) /\ IsDt(modification_dt)
                 /\ Abs(Days(modification_dt, invoice_dt)) > MAX_DATE_DIFF_DAYS
              THEN Max(s1, 60) ELSE s1
    IN  IF ~IsDt(creation_dt) /\ ~IsDt(modification_dt) THEN 20 ELSE s2

\* score_producer.  A producer string is given by what the regular
\* expressions find in it: empty, whether _UNKNOWN_PRODUCER matches, and
\* the rule classes (1..6, in table order) holding a matching pattern.
PRODUCER_RULE_SCORES == <<5, 10, 25, 40, 55, 65>>
NoProducer == [tag |-> "none", empty |-> TRUE, unknown |-> FALSE, classes |-> {}]
score_producer(producer) ==
    IF producer.empty \/ producer.unknown THEN 50
    ELSE IF producer.classes = {} THEN 50
    ELSE PRODUCER_RULE_SCORES[CHOOSE c \in producer.classes :
                                 \A d \in producer.classes : c <= d]

\* ---- signatures: the body of `for s in signatures` ----

\* steps 2 and 3 of the loop body, entered with the issue and the reasons
\* collected so far
SignatureRest(s, creation_dt, modification_dt, invoice_dt, issue0, reasons0) ==
    LET sign_dt  == _parse_sign_dt(s)
        trusted  == _safe_bool(s.trusted)
        covers_document == PyBool(s.covers_document)
        docmdp_ok == s.docmdp_ok
        missing  == ~IsDt(sign_dt)
        before   == ~missing /\ IsDt(creation_dt) /\ sign_dt.v < creation_dt.v
        after    == ~missing /\ IsDt(modification_dt) /\ sign_dt.v > modification_dt.v
        far      == ~missing /\ IsDt(invoice_dt)
                    /\ Abs(Days(sign_dt, invoice_dt)) > MAX_DATE_DIFF_DAYS
        time_issue == before \/ after \/ far
        issue1   == IF missing THEN issue0 + SIGNATURES_WEIGHTS.missing_sign_time ELSE issue0
        issue2   == IF time_issue THEN Max(issue1, FRAUD_FLOOR_TIME) ELSE issue1
        issue3   == issue2 + (IF trusted = "False" THEN SIGNATURES_WEIGHTS.untrusted_chain
                              ELSE IF trusted = "None"
                                   THEN SIGNATURES_WEIGHTS.indeterminate_chain ELSE 0)
        issue4   == issue3 + (IF ~covers_document THEN SIGNATURES_WEIGHTS.not_cover_entire ELSE 0)
        issue5   == issue4 + (IF docmdp_ok = "False" THEN SIGNATURES_WEIGHTS.docmdp_fail ELSE 0)
        reasons  == reasons0
                    \o (IF missing THEN <<"missing_sign_time">> ELSE <<>>)
                    \o (IF before THEN <<"sign_before_creation">> ELSE <<>>)
                    \o (IF after THEN <<"sign_after_modification">> ELSE <<>>)
                    \o (IF far THEN <<"invoice_date_far">> ELSE <<>>)
                    \o (IF trusted = "False" THEN <<"untrusted_chain">>
                        ELSE IF trusted = "None" THEN <<"indeterminate_chain">> ELSE <<>>)
                    \o (IF ~covers_document THEN <<"not_cover_entire">> ELSE <<>>)
                    \o (IF docmdp_ok = "False" THEN <<"docmdp_fail">> ELSE <<>>)
    IN  [issue_score |-> Max(0, Min(100, issue5)), issue_reasons |-> reasons,
         signed_at |-> sign_dt]

\* the catastrophic floor taken as a starting value instead of a verdict
SignatureIssueFallThrough(s, creation_dt, modification_dt, invoice_dt) ==
    IF _safe_bool(s.intact) = "False"
    THEN SignatureRest(s, creation_dt, modification_dt, invoice_dt,
                       CATASTROPHIC_INTEGRITY, <<"integrity_fail">>)
    ELSE SignatureRest(s, creation_dt, modification_dt, invoice_dt, 0, <<>>)

\* one iteration: `if intact is False: ... continue`, else steps 2 and 3
SignatureIssue(s, creation_dt, modification_dt, invoice_dt) ==
    IF _safe_bool(s.intact) = "False"
    THEN [issue_score |-> CATASTROPHIC_INTEGRITY, issue_reasons |-> <<"integrity_fail">>,
          signed_at |-> NoneV]
    ELSE SignatureRest(s, creation_dt, modification_dt, invoice_dt, 0, <<>>)

MaxOfSeq(s) == CHOOSE x \in Range(s) : \A y \in Range(s) : x >= y
\* list.index(x)
IndexOf(s, x) == CHOOSE i \in 1..Len(s) : s[i] = x /\ \A j \in 1..(i - 1) : s[j] # x

NoSignatures == [present |-> FALSE, value |-> <<>>, score |-> 0, chosen |-> 0]

\* the block `if signatures:` of _score_metadata
ScoreSignatures(signatures, creation_dt, modification_dt, invoice_dt) ==
    IF signatures = <<>> THEN NoSignatures
    ELSE LET value == [i \in 1..Len(signatures) |->
                          SignatureIssue(signatures[i], creation_dt, modification_dt, invoice_dt)]
             issue_scores == [i \in 1..Len(signatures) |-> value[i].issue_score]
             overall_issue == MaxOfSeq(issue_scores)
         IN  [present |-> TRUE, value |-> value, score |-> overall_issue,
              chosen |-> IndexOf(issue_scores, overall_issue)]

\* ---- annotations ----

ANNOT_RISK_BASE ==
    [Link |-> 10, Text |-> 75, FreeText |-> 78, Popup |-> 75,
     Highlight |-> 50, Underline |-> 50, Squiggly |-> 55, StrikeOut |-> 55, Caret |-> 65,
     Ink |-> 75, Stamp |-> 60, Redact |-> 85, Widget |-> 45,
     FileAttachment |-> 95, Sound |-> 95, Movie |-> 95, RichMedia |-> 98]
\* ANNOT_RISK_BASE.get(subtype, 40)
UNKNOWN_ANNOT_RISK == 40
\* "top_suspicious": suspicious[:20]
TOP_SUSPICIOUS_CAP == 20
SUSPICIOUS_MIN == 70

SUSPICIOUS_SCHEMES == {"javascript", "data", "file", "ftp"}
HIGH_RISK_ACTIONS == {"JavaScript", "Launch", "SubmitForm", "GoToR"}
MARKUP_SUBTYPES == {"Text", "FreeText", "Popup", "Ink", "Caret", "Redact", "Stamp"}

\* _name: str(val) without its leading "/"; None gives "".  PDF names of the
\* model that still carry the slash:
Slashed == ("/Link" :> "Link") @@ ("/Redact" :> "Redact")
_name(val) ==
    IF val = "None" THEN ""
    ELSE IF val \in DOMAIN Slashed THEN Slashed[val] ELSE val

\* the sides not clamped at 0
_rect_area_unclamped(rect) == (rect[3] - rect[1]) * (rect[4] - rect[2])

\* _rect_area of a bbox <<llx, lly, urx, ury>>; NoneV when there is none
_rect_area(rect) == Max(0, rect[3] - rect[1]) * Max(0, rect[4] - rect[2])

\* An annotation: subtype, flags (the set of flags that are set), action
\* (S, and the URI split into scheme and host), bbox (a rectangle, or <<>>),
\* page, modified (a datetime or NoneV) and contents (a string).
NoAction == [S |-> "None", scheme |-> "", host |-> ""]
Annot(subtype) ==
    [subtype |-> subtype, flags |-> {}, action |-> NoAction, bbox |-> <<>>,
     page |-> 1, modified |-> NoneV, contents |-> ""]

\* _score_single_annotation: every rule raises risk to a floor
_score_single_annotation(a, page_area, doc_creation, doc_mod, allowed_domains) ==
    LET subtype  == _name(a.subtype)
        base     == IF subtype \in DOMAIN ANNOT_RISK_BASE THEN ANNOT_RISK_BASE[subtype]
                    ELSE UNKNOWN_ANNOT_RISK
        hidden   == "Invisible" \in a.flags \/ "Hidden" \in a.flags
        printOnly == "NoView" \in a.flags /\ "Print" \in a.flags
        action_s == _name(a.action.S)
        hasUri   == action_s = "URI" /\ (a.action.scheme # "" \/ a.action.host # "")
        highRisk == action_s \in HIGH_RISK_ACTIONS
        badScheme == hasUri /\ a.action.scheme \in SUSPICIOUS_SCHEMES
        external == hasUri /\ ~badScheme /\ allowed_domains # {}
                    /\ a.action.host # "" /\ a.action.host \notin allowed_domains
        rect_area == IF page_area > 0 /\ a.bbox # <<>> THEN _rect_area(a.bbox) ELSE 0
        veryLarge == rect_area > 0 /\ 10 * rect_area > 8 * page_area
        large    == rect_area > 0 /\ ~veryLarge /\ 2 * rect_area > page_area
        ann_m    == a.modified
        predates == IsDt(doc_creation) /\ IsDt(ann_m) /\ ann_m.v < doc_creation.v
        newer    == IsDt(doc_mod) /\ IsDt(ann_m) /\ ann_m.v > doc_mod.v
        r1 == IF hidden THEN Max(base, 90) ELSE base
        r2 == IF printOnly THEN Max(r1, 95) ELSE r1
        r3 == IF highRisk THEN Max(r2, 95) ELSE r2
        r4 == IF badScheme THEN Max(r3, 92) ELSE IF external THEN Max(r3, 30) ELSE r3
        r5 == IF veryLarge THEN Max(r4, 92) ELSE IF large THEN Max(r4, 85) ELSE r4
        r6 == IF predates THEN Max(r5, 85) ELSE r5
        r7 == IF newer THEN Max(r6, 88) ELSE r6
        reasons == (IF hidden THEN <<"hidden">> ELSE <<>>)
                   \o (IF printOnly THEN <<"print_only">> ELSE <<>>)
                   \o (IF highRisk THEN <<"action">> ELSE <<>>)
                   \o (IF badScheme THEN <<"scheme">> ELSE IF external THEN <<"external">> ELSE <<>>)
                   \o (IF veryLarge THEN <<"very_large_rect">>
                       ELSE IF large THEN <<"large_rect">> ELSE <<>>)
                   \o (IF predates THEN <<"predates_creation">> ELSE <<>>)
                   \o (IF newer THEN <<"newer_than_moddate">> ELSE <<>>)
                   \o (IF subtype \in MARKUP_SUBTYPES /\ a.contents # ""
                       THEN <<"comment">> ELSE <<>>)
    IN  [score |-> Min(100, Max(0, r7)), reasons |-> reasons]

\* _summarize_annotations()["Link"], 0 when there is no Link
LinkCount(annotations) ==
    Cardinality({i \in 1..Len(annotations) : _name(annotations[i].subtype) = "Link"})

\* the nudges applied whatever the subtype
LinkPostProcessAnySubtype(a, score, link_count) ==
    IF link_count <= 3 /\ score <= 30 THEN Min(score, 15)
    ELSE IF link_count > 8 /\ score < 40 THEN 40
    ELSE score

\* "Nudge benign single links down; escalate many links"
LinkPostProcess(a, score, link_count) ==
    IF _name(a.subtype) = "Link"
    THEN IF link_count <= 3 /\ score <= 30 THEN Min(score, 15)
         ELSE IF link_count > 8 /\ score < 40 THEN 40
         ELSE score
    ELSE score

\* page_dims.get(a.get("page"), {}).get("area"); 0 stands for None
PageArea(page_dims, a) == IF a.page \in DOMAIN page_dims THEN page_dims[a.page] ELSE 0

\* the score of annotation a as the loop of _score_metadata sees it
AnnotRisk(a, metadata, link_count) ==
    LinkPostProcess(a,
        _score_single_annotation(a, PageArea(metadata.page_dims, a),
                                 metadata.creation_date, metadata.modification_date,
                                 {}).score,
        link_count)

\* the loop keeps the last score instead of the largest
AnnotationStepLastWins(acc, a, risk) ==
    [max_score  |-> risk,
     suspicious |-> IF risk >= SUSPICIOUS_MIN
                    THEN Append(acc.suspicious, [annot |-> a, risk |-> risk])
                    ELSE acc.suspicious]

\* one iteration of `for a in annotations`, after the score is known
AnnotationStep(acc, a, risk) ==
    [max_score  |-> IF risk > acc.max_score THEN risk ELSE acc.max_score,
     suspicious |-> IF risk >= SUSPICIOUS_MIN
                    THEN Append(acc.suspicious, [annot |-> a, risk |-> risk])
                    ELSE acc.suspicious]

RECURSIVE AnnotationLoop(_, _, _, _)
AnnotationLoop(annotations, i, metadata, link_count) ==
    IF i = 0 THEN [max_score |-> 0, suspicious |-> <<>>]
    ELSE AnnotationStep(AnnotationLoop(annotations, i - 1, metadata, link_count),
                        annotations[i], AnnotRisk(annotations[i], metadata, link_count))

NoAnnotation == [present |-> FALSE, score |-> 0, suspicious_count |-> 0,
                 top_suspicious |-> <<>>]

\* the block `if annotations:` of _score_metadata
ScoreAnnotations(metadata) ==
    LET annotations == metadata.annotation
    IN  IF annotations = <<>> THEN NoAnnotation
        ELSE LET acc == AnnotationLoop(annotations, Len(annotations), metadata,
                                       LinkCount(annotations))
                 a_score == IF acc.max_score = 0 THEN 10 ELSE acc.max_score
             IN  [present |-> TRUE, score |-> a_score,
                  suspicious_count |-> Len(acc.suspicious),
                  top_suspicious |-> Prefix(acc.suspicious, TOP_SUSPICIOUS_CAP)]

\* ---- the whole of _score_metadata ----

_score_metadata(metadata, invoice_dt) ==
    LET date_score == DateScore(metadata.creation_date, metadata.modification_date, invoice_dt)
        producer   == metadata.producer
        p_scores   == (IF producer.tag # "none" THEN <<score_producer(producer)>> ELSE <<>>)
                      \o (IF (producer.tag = "none" \/ producer.empty) /\ metadata.xmp_producer
                          THEN <<60>> ELSE <<>>)
        sigs       == ScoreSignatures(metadata.signatures, metadata.creation_date,
                                      metadata.modification_date, invoice_dt)
        annot      == ScoreAnnotations(metadata)
        io_score   == IF metadata.image_only THEN 60 ELSE 0
        all_scores == <<date_score>> \o p_scores
                      \o (IF sigs.present THEN <<sigs.score>> ELSE <<>>)
                      \o (IF annot.present THEN <<annot.score>> ELSE <<>>)
                      \o <<io_score>>
    IN  [dates |-> date_score, producer |-> p_scores, signatures |-> sigs,
         annotation |-> annot, image_only |-> io_score,
         final_score |-> MaxOfSeq(all_scores)]

\* ---- one call of _score_metadata ----

\* longest annotation list enumerated exhaustively
MaxAnnots == 3
\* most Link annotations in a link-flooded document
MaxLinks == 10
\* how far past the top_suspicious cap a run of suspicious annotations goes
MaxOverCap == 1

\* the day of the invoice date, and the days around it that matter
InvoiceDay == 100
SignOffsets == {0 - (MAX_DATE_DIFF_DAYS + 1), 0 - MAX_DATE_DIFF_DAYS, 0,
                MAX_DATE_DIFF_DAYS, MAX_DATE_DIFF_DAYS + 1}
SignTimes == {Dt((InvoiceDay + o) * TicksPerDay + h) : o \in SignOffsets, h \in {0, 1}}

Signature(intact, trusted, covers, docmdp, signing_time) ==
    [intact |-> intact, trusted |-> trusted, covers_document |-> covers,
     docmdp_ok |-> docmdp, signing_time |-> signing_time]

Signatures ==
    {Signature(i, t, c, d, st) :
        i \in {"None", "True", "False", "0"}, t \in {"None", "True", "False"},
        c \in {"True", "False"}, d \in {"None", "True", "False"},
        st \in {NoneV, Bad} \cup SignTimes}

Metadata(creation, modification, signatures, annotations, page_dims) ==
    [creation_date |-> creation, modification_date |-> modification,
     producer |-> NoProducer, xmp_producer |-> FALSE,
     signatures |-> signatures, annotation |-> annotations,
     page_dims |-> page_dims, image_only |-> FALSE]

\* documents with one signature: every signature, around every date setting
SignedInputs ==
    {[metadata |-> Metadata(c, m, <<s>>, <<>>, <<>>), invoice_dt |-> inv] :
        c \in {NoneV, Midnight(InvoiceDay - 10), Midnight(InvoiceDay)},
        m \in {NoneV, Dt(InvoiceDay * TicksPerDay + 1), Midnight(InvoiceDay + 10)},
        inv \in {NoneV, Midnight(InvoiceDay)},
        s \in Signatures}

\* documents with two signatures
TwoSignatures ==
    {Signature("True", "True", "True", "True", Midnight(InvoiceDay)),
     Signature("False", "None", "False", "False", NoneV),
     Signature("True", "False", "False", "None", Midnight(InvoiceDay - 20)),
     Signature("None", "True", "True", "True", Bad)}
TwiceSignedInputs ==
    {[metadata |-> Metadata(Midnight(InvoiceDay - 10), NoneV, <<s1, s2>>, <<>>, <<>>),
      invoice_dt |-> Midnight(InvoiceDay)] : s1 \in TwoSignatures, s2 \in TwoSignatures}

\* annotations of every kind of score
PlainLink == Annot("Link")
ScriptLink == [Annot("/Link") EXCEPT !.action = [S |-> "/JavaScript", scheme |-> "", host |-> ""]]
UriLink == [Annot("Link") EXCEPT !.action = [S |-> "URI", scheme |-> "https", host |-> "vendor.com"]]
HiddenWidget == [Annot("Widget") EXCEPT !.flags = {"Hidden"}]
Overlay == [Annot("Stamp") EXCEPT !.bbox = <<0, 0, 9, 10>>, !.contents = "PAID"]
Redaction == Annot("/Redact")
Attachment == Annot("FileAttachment")
AnnotKinds ==
    {PlainLink, ScriptLink, UriLink, HiddenWidget, Overlay, Redaction, Attachment,
     Annot("Highlight"), Annot("None")}

Repeat(x, n) == [i \in 1..n |-> x]

AnnotatedMetadata(annotations) ==
    [metadata |-> Metadata(NoneV, NoneV, <<>>, annotations, (1 :> 100)),
     invoice_dt |-> NoneV]

\* every short list
FewAnnotations == {AnnotatedMetadata(as) : as \in SeqsBetween(AnnotKinds, 1, MaxAnnots)}
\* a run of plain links, one other annotation somewhere behind it
LinkFloods ==
    {AnnotatedMetadata(Repeat(PlainLink, n) \o tl) :
        n \in 1..MaxLinks, tl \in SeqsUpTo({UriLink, ScriptLink, Annot("Highlight")}, 1)}
\* a run of redactions up to and beyond the cap, other annotations behind it
ManySuspicious ==
    {AnnotatedMetadata(Repeat(Redaction, n) \o tl) :
        n \in (TOP_SUSPICIOUS_CAP - 1)..(TOP_SUSPICIOUS_CAP + MaxOverCap),
        tl \in SeqsUpTo({Attachment, Annot("Highlight")}, 2)}

ScoreMetadataInputs ==
    SignedInputs \cup TwiceSignedInputs \cup FewAnnotations \cup LinkFloods
    \cup ManySuspicious

InitScoreMetadata ==
    /\ call = "idle"
    /\ args \in ScoreMetadataInputs
    /\ ret = NoRet
    /\ err = "none"
    /\ AggIdle
    /\ PipeIdle

\* scored = self._score_metadata(metadata, invoice_dates)
Call_score_metadata ==
    /\ call = "idle"
    /\ call' = "_score_metadata"
    /\ ret' = _score_metadata(args.metadata, args.invoice_dt)
    /\ UNCHANGED <<args, err, aggVars, pipeVars>>

NextScoreMetadata == Call_score_metadata
SpecScoreMetadata == InitScoreMetadata /\ [][NextScoreMetadata]_vars

Scored == call = "_score_metadata"

SignedBeforeCreation(s) ==
    IsDt(args.metadata.creation_date) /\ s.signing_time.v < args.metadata.creation_date.v
SignedAfterModification(s) ==
    IsDt(args.metadata.modification_date)
    /\ s.signing_time.v > args.metadata.modification_date.v
SignedFarFromReference(s) ==
    IsDt(args.invoice_dt)
    /\ Abs(s.signing_time.v - args.invoice_dt.v) > MAX_DATE_DIFF_DAYS * TicksPerDay

\* C12 as claimed: a signature that is not integrity-failed and has a
\* parsable signing time scores at least 90 and at most 100 when it was
\* signed before the document's creation, after its modification, or more
\* than 60 days from the reference date.
C12_TimeAnomalyFloor ==
    Scored =>
        \A i \in 1..Len(args.metadata.signatures) :
            LET s == args.metadata.signatures[i]
            IN  (/\ _safe_bool(s.intact) # "False"
                 /\ IsDt(s.signing_time)
                 /\ \/ SignedBeforeCreation(s)
                    \/ SignedAfterModification(s)
                    \/ SignedFarFromReference(s))
                => /\ ret.signatures.value[i].issue_score >= 90
                   /\ ret.signatures.value[i].issue_score <= 100

\* the metadata with annotations i and i + 1 exchanged
SwapAnnotations(metadata, i) ==
    LET as == metadata.annotation
    IN  [metadata EXCEPT !.annotation =
            [j \in 1..Len(as) |-> IF j = i THEN as[i + 1]
                                  ELSE IF j = i + 1 THEN as[i] ELSE as[j]]]

\* C13 as claimed: permuting the annotation list yields the same
\* per-document annotation score and the same set of annotations reported
\* as suspicious (score >= 70), also when more than 20 are suspicious.
\* Every permutation is a product of exchanges of neighbours.
C13_OrderIndependent ==
    Scored =>
        \A i \in 1..(Len(args.metadata.annotation) - 1) :
            LET other == _score_metadata(SwapAnnotations(args.metadata, i),
                                         args.invoice_dt).annotation
            IN  /\ other.score = ret.annotation.score
                /\ Range(other.top_suspicious) = Range(ret.annotation.top_suspicious)

\* C14: the per-document annotation score is the largest per-annotation
\* score after Link post-processing, and it is at least 10 whenever the
\* document has an annotation.
C14_MaxAnnotationScore ==
    (Scored /\ args.metadata.annotation # <<>>) =>
        LET as   == args.metadata.annotation
            risk(i) == AnnotRisk(as[i], args.metadata, LinkCount(as))
        IN  /\ ret.annotation.present
            /\ \E i \in 1..Len(as) : risk(i) = ret.annotation.score
            /\ \A i \in 1..Len(as) : risk(i) <= ret.annotation.score
            /\ ret.annotation.score >= 10

\* a link-flooded document: every raw score is 10, post-processing raises
\* each Link to 40, and 40 is the document's annotation score
C14_Witness ==
    /\ Scored
    /\ LinkCount(args.metadata.annotation) > 8
    /\ \A i \in 1..Len(args.metadata.annotation) :
          _score_single_annotation(args.metadata.annotation[i], 100, NoneV, NoneV, {}).score = 10
    /\ ret.annotation.score = 40

\* the time reasons a signature can carry
TimeReasons == {"sign_before_creation", "sign_after_modification", "invoice_date_far"}

\* the additive penalties of a signature, from its payload
Penalties(s) ==
    (IF ~IsDt(s.signing_time) THEN 15 ELSE 0)
    + (IF _safe_bool(s.trusted) = "False" THEN 25
       ELSE IF _safe_bool(s.trusted) = "None" THEN 10 ELSE 0)
    + (IF ~PyBool(s.covers_document) THEN 8 ELSE 0)
    + (IF s.docmdp_ok = "False" THEN 8 ELSE 0)

\* C21: a signature whose integrity did not fail and that carries no time
\* anomaly scores the sum of its penalties: 15 for a missing or unparsable
\* signing time, 25 for trusted False or 10 for trusted None, 8 for not
\* covering the entire file, 8 for docmdp_ok False; the sum stays within
\* [0, 100] and is 0 exactly when no penalty applies.
C21_AdditivePenalties ==
    Scored =>
        \A i \in 1..Len(args.metadata.signatures) :
            LET s == args.metadata.signatures[i]
                v == ret.signatures.value[i]
            IN  (/\ _safe_bool(s.intact) # "False"
                 /\ Range(v.issue_reasons) \cap TimeReasons = {})
                => /\ v.issue_score = Penalties(s)
                   /\ v.issue_score \in 0..100
                   /\ (v.issue_score = 0) <=>
                        (/\ IsDt(s.signing_time)
                         /\ _safe_bool(s.trusted) = "True"
                         /\ PyBool(s.covers_document)
                         /\ s.docmdp_ok # "False")

\* an intact signature with every penalty at once: 15 + 25 + 8 + 8
C21_Witness ==
    /\ Scored
    /\ \E i \in 1..Len(args.metadata.signatures) :
          LET s == args.metadata.signatures[i]
          IN  /\ s.intact = "True"
              /\ s.signing_time = Bad
              /\ s.trusted = "False"
              /\ s.covers_document = "False"
              /\ s.docmdp_ok = "False"
              /\ ret.signatures.value[i].issue_score = 56

\* the raw score of annotation i of the scored document
RawRisk(i) ==
    _score_single_annotation(args.metadata.annotation[i],
                             PageArea(args.metadata.page_dims, args.metadata.annotation[i]),
                             args.metadata.creation_date, args.metadata.modification_date,
                             {}).score

\* C24: in post-processing a Link's score is at most 15 when the document
\* has at most 3 Links and the raw score is <= 30, and at least 40 when
\* the document has more than 8 Links; a non-Link keeps its raw score.
\* Stated for the annotations of the document with the scores they have,
\* and for every score they could have.
C24_LinkPostProcessing ==
    Scored =>
        LET as == args.metadata.annotation
            n  == LinkCount(as)
            isLink(a) == a.subtype \in {"Link", "/Link"}
        IN  \A i \in 1..Len(as) :
              /\ isLink(as[i]) /\ n <= 3 /\ RawRisk(i) <= 30
                    => AnnotRisk(as[i], args.metadata, n) <= 15
              /\ isLink(as[i]) /\ n > 8 => AnnotRisk(as[i], args.metadata, n) >= 40
              /\ ~isLink(as[i]) => AnnotRisk(as[i], args.metadata, n) = RawRisk(i)
              /\ AnnotRisk(as[i], args.metadata, n) <= ret.annotation.score
              /\ \A score \in 0..100 :
                    LET post == LinkPostProcess(as[i], score, n)
                    IN  /\ isLink(as[i]) /\ n <= 3 /\ score <= 30 => post <= 15
                        /\ isLink(as[i]) /\ n > 8 => post >= 40
                        /\ isLink(as[i]) /\ n > 3 /\ n <= 8 => post = score
                        /\ ~isLink(as[i]) => post = score

\* a link flood with another annotation behind it: a Link of raw score 10
\* is raised to 40, the Highlight keeps its 50
C24_Witness ==
    /\ Scored
    /\ LinkCount(args.metadata.annotation) > 8
    /\ \E i \in 1..Len(args.metadata.annotation) :
          /\ args.metadata.annotation[i].subtype = "Link"
          /\ RawRisk(i) = 10
          /\ AnnotRisk(args.metadata.annotation[i], args.metadata,
                       LinkCount(args.metadata.annotation)) = 40
    /\ \E i \in 1..Len(args.metadata.annotation) :
          /\ args.metadata.annotation[i].subtype = "Highlight"
          /\ RawRisk(i) = 50
    /\ ret.annotation.score = 50

\* signature s signed as long before the reference date as it was after it
Mirrored(s) ==
    [s EXCEPT !.signing_time = Dt(2 * args.invoice_dt.v - s.signing_time.v)]
FlaggedFar(s) ==
    "invoice_date_far" \in
        Range(SignatureIssue(s, args.metadata.creation_date,
                             args.metadata.modification_date,
                             args.invoice_dt).issue_reasons)

\* C26: the reference-date anomaly is symmetric in direction: a signing
\* time d before the reference date is flagged invoice_date_far exactly
\* when a signing time d after it is, namely iff the elapsed time between
\* them exceeds 60 days.
C26_SymmetricWindow ==
    Scored =>
        \A i \in 1..Len(args.metadata.signatures) :
            LET s == args.metadata.signatures[i]
                far == "invoice_date_far" \in Range(ret.signatures.value[i].issue_reasons)
            IN  (/\ _safe_bool(s.intact) # "False"
                 /\ IsDt(s.signing_time)
                 /\ IsDt(args.invoice_dt))
                => /\ far <=> FlaggedFar(Mirrored(s))
                   /\ far <=> SignedFarFromReference(s)

\* ---- one call of _score_single_annotation ----

\* the document's creation and modification instants seen by the annotation
DocCreated == Midnight(InvoiceDay)
DocModified == Midnight(InvoiceDay + 10)

SingleAnnotations ==
    {[subtype |-> st, flags |-> fl, action |-> ac, bbox |-> bb, page |-> 1,
      modified |-> md, contents |-> ""] :
        st \in {"Link", "/Redact", "Widget", "None", "RichMedia"},
        fl \in {{}, {"Hidden"}, {"NoView"}, {"NoView", "Print"}},
        ac \in {NoAction,
                [S |-> "/JavaScript", scheme |-> "", host |-> ""],
                [S |-> "URI", scheme |-> "javascript", host |-> ""],
                [S |-> "URI", scheme |-> "https", host |-> "vendor.com"],
                [S |-> "URI", scheme |-> "https", host |-> "elsewhere.net"]},
        bb \in {<<>>, <<0, 0, 9, 10>>, <<0, 0, 8, 10>>, <<0, 0, 6, 10>>,
                <<0, 0, 5, 10>>, <<10, 10, 0, 0>>},
        md \in {NoneV, Midnight(InvoiceDay - 1), Midnight(InvoiceDay + 11)}}

ScoreAnnotationInputs ==
    {[a |-> a, page_area |-> pa, doc_creation |-> dc, doc_mod |-> dm,
      allowed_domains |-> ad] :
        a \in SingleAnnotations, pa \in {0, 100},
        dc \in {NoneV, DocCreated}, dm \in {NoneV, DocModified},
        ad \in {{}, {"vendor.com"}}}

InitScoreAnnotation ==
    /\ AggIdle /\ PipeIdle
    /\ call = "idle" /\ ret = NoRet /\ err = "none"
    /\ args \in ScoreAnnotationInputs

Call_score_single_annotation ==
    /\ call = "idle"
    /\ args \in ScoreAnnotationInputs
    /\ ret' = _score_single_annotation(args.a, args.page_area, args.doc_creation,
                                       args.doc_mod, args.allowed_domains)
    /\ call' = "_score_single_annotation"
    /\ UNCHANGED <<args, err, aggVars, pipeVars>>

NextScoreAnnotation == Call_score_single_annotation
SpecScoreAnnotation == InitScoreAnnotation /\ [][NextScoreAnnotation]_vars

AnnotationScored == call = "_score_single_annotation"

\* the base risk of the annotation's subtype
BaseRisk(a) ==
    IF _name(a.subtype) \in DOMAIN ANNOT_RISK_BASE THEN ANNOT_RISK_BASE[_name(a.subtype)]
    ELSE 40

\* the rectangle's share of the page exceeds num/den
Covers(a, page_area, num, den) ==
    /\ a.bbox # <<>> /\ page_area > 0
    /\ a.bbox[3] > a.bbox[1] /\ a.bbox[4] > a.bbox[2]
    /\ den * ((a.bbox[3] - a.bbox[1]) * (a.bbox[4] - a.bbox[2])) > num * page_area

\* the floors of the rules the call triggers
TriggeredFloors ==
    LET a == args.a
        uri == _name(a.action.S) = "URI"
    IN  (IF "Hidden" \in a.flags \/ "Invisible" \in a.flags THEN {90} ELSE {})
        \cup (IF {"NoView", "Print"} \subseteq a.flags THEN {95} ELSE {})
        \cup (IF _name(a.action.S) \in {"JavaScript", "Launch", "SubmitForm", "GoToR"}
              THEN {95} ELSE {})
        \cup (IF uri /\ a.action.scheme \in {"javascript", "data", "file", "ftp"}
              THEN {92} ELSE {})
        \cup (IF uri /\ a.action.host # "" /\ args.allowed_domains # {}
                 /\ a.action.host \notin args.allowed_domains
              THEN {30} ELSE {})
        \cup (IF Covers(a, args.page_area, 8, 10) THEN {92} ELSE {})
        \cup (IF Covers(a, args.page_area, 5, 10) THEN {85} ELSE {})
        \cup (IF IsDt(args.doc_creation) /\ IsDt(a.modified)
                 /\ a.modified.v < args.doc_creation.v THEN {85} ELSE {})
        \cup (IF IsDt(args.doc_mod) /\ IsDt(a.modified)
                 /\ a.modified.v > args.doc_mod.v THEN {88} ELSE {})

\* C22: _score_single_annotation returns the largest of the subtype's base
\* risk (40 for an unknown subtype) and the floors of the triggered rules;
\* the result is never below the base risk.
C22_MaxOfBaseAndFloors ==
    AnnotationScored =>
        LET all == {BaseRisk(args.a)} \cup TriggeredFloors
        IN  /\ ret.score \in all
            /\ \A f \in all : f <= ret.score
            /\ ret.score >= BaseRisk(args.a)

\* a Widget (base 45) covering 60% of its page and modified before the
\* document was created: two floors of 85 lift it
C22_Witness ==
    /\ AnnotationScored
    /\ BaseRisk(args.a) = 45
    /\ Covers(args.a, args.page_area, 5, 10) /\ ~Covers(args.a, args.page_area, 8, 10)
    /\ TriggeredFloors = {85}
    /\ ret.score = 85

\* ---- PDFMetadataScorer.run: _extract_metadata, then _score_metadata ----
\* A PDF as the reader presents it: readable or not, whether any page has
\* text, and its pages, each with the area of its mediabox (0 when the
\* geometry cannot be read) and the annotation objects of /Annots.  An
\* annotation object that cannot be parsed is Unparsable.

\* most pages of an enumerated PDF
MaxPages == 2

Unparsable == [Annot("None") EXCEPT !.contents = "unparsable"]
CoverLink == [Annot("/Link") EXCEPT !.bbox = <<0, 0, 9, 10>>]
HalfStamp == [Annot("/Stamp") EXCEPT !.bbox = <<0, 0, 6, 10>>]
PageAnnots ==
    {<<>>, <<Overlay>>, <<CoverLink>>, <<HalfStamp, Overlay>>, <<Unparsable>>,
     <<Annot("/Highlight"), HalfStamp>>}
PdfPages == {[area |-> ar, annots |-> an] : ar \in {0, 100}, an \in PageAnnots}
Pdfs ==
    {[readable |-> FALSE, text |-> FALSE, pages |-> <<>>]}
    \cup {[readable |-> TRUE, text |-> tx, pages |-> ps] :
            tx \in BOOLEAN, ps \in SeqsBetween(PdfPages, 1, MaxPages)}

\* the dict appended for one annotation object of page idx
ExtractAnnotation(obj, idx) ==
    IF obj = Unparsable THEN [Annot("None") EXCEPT !.page = idx]
    ELSE [obj EXCEPT !.subtype = _name(obj.subtype), !.page = idx]

RECURSIVE ExtractAnnotations(_, _)
ExtractAnnotations(pages, n) ==
    IF n = 0 THEN <<>>
    ELSE ExtractAnnotations(pages, n - 1)
         \o [k \in 1..Len(pages[n].annots) |-> ExtractAnnotation(pages[n].annots[k], n)]

\* _extract_metadata returns data with the keys creation_date,
\* modification_date, producer, annotation, image_only and signatures.  The
\* local page_dims is filled page by page and is not among them, so the
\* scorer's metadata.get("page_dims", {}) is the empty dict.
_extract_metadata(pdf) ==
    IF ~pdf.readable
    THEN Metadata(NoneV, NoneV, <<>>, <<>>, <<>>)
    ELSE [Metadata(NoneV, NoneV, <<>>, ExtractAnnotations(pdf.pages, Len(pdf.pages)), <<>>)
            EXCEPT !.image_only = ~pdf.text]

\* MetadataBaseScorer.run
run(pdf) == _score_metadata(_extract_metadata(pdf), NoneV)

InitRun ==
    /\ AggIdle /\ PipeIdle
    /\ call = "idle" /\ ret = NoRet /\ err = "none"
    /\ args \in Pdfs

Call_run ==
    /\ call = "idle"
    /\ args \in Pdfs
    /\ ret' = run(args)
    /\ call' = "run"
    /\ UNCHANGED <<args, err, aggVars, pipeVars>>

NextRun == Call_run
SpecRun == InitRun /\ [][NextRun]_vars

Ran == call = "run"

\* the rectangle of annotation object obj exceeds num/den of the page's area
CoversPage(page, obj, num, den) ==
    /\ obj.bbox # <<>> /\ page.area > 0
    /\ obj.bbox[3] > obj.bbox[1] /\ obj.bbox[4] > obj.bbox[2]
    /\ den * ((obj.bbox[3] - obj.bbox[1]) * (obj.bbox[4] - obj.bbox[2])) > num * page.area

\* the risk the scoring loop gives the k-th annotation object of page n
RunRisk(n, k) ==
    LET metadata == _extract_metadata(args)
    IN  AnnotRisk(ExtractAnnotation(args.pages[n].annots[k], n), metadata,
                  LinkCount(metadata.annotation))

\* C23: in a PDF scored through run, an annotation whose rectangle covers
\* more than 0.8 of its page's area has risk >= 92, one covering more than
\* 0.5 has risk >= 85, and the document's annotation score is no lower.
C23_CoverageFloorThroughRun ==
    Ran =>
        \A n \in 1..Len(args.pages) : \A k \in 1..Len(args.pages[n].annots) :
            LET page == args.pages[n]
                obj  == page.annots[k]
            IN  /\ CoversPage(page, obj, 8, 10) =>
                    (RunRisk(n, k) >= 92 /\ ret.annotation.score >= 92)
                /\ CoversPage(page, obj, 5, 10) =>
                    (RunRisk(n, k) >= 85 /\ ret.annotation.score >= 85)

\* ---- one call of score_producer ----
\* A producer string is a sequence of words joined by blanks.  Each word is
\* known by what the regular expressions find in it: the rule class (1..6,
\* in table order) one of whose patterns it matches, and whether
\* _UNKNOWN_PRODUCER (^$|unknown|null|-|N/A) matches it.  A pattern matches
\* the string exactly when it matches one of these words.

\* most words of an enumerated producer string
MaxProducerWords == 2

WordClass ==
    ("Xero" :> {1}) @@ ("DocuSign" :> {2}) @@ ("iText" :> {3}) @@ ("PDF24" :> {4})
    @@ ("Canon" :> {5}) @@ ("GIMP" :> {6}) @@ ("PDF-XChange Editor" :> {4})
    @@ ("-" :> {}) @@ ("unknown" :> {}) @@ ("Acme" :> {})
UnknownWords == {"PDF-XChange Editor", "-", "unknown"}
ProducerWords == DOMAIN WordClass

\* what score_producer's searches find in the string made of these words
ProducerString(ws) ==
    [tag |-> "str", empty |-> ws = <<>>,
     unknown |-> \E i \in 1..Len(ws) : ws[i] \in UnknownWords,
     classes |-> UNION {WordClass[ws[i]] : i \in 1..Len(ws)}]

ProducerInputs == SeqsUpTo(ProducerWords, MaxProducerWords)

InitProducer ==
    /\ AggIdle /\ PipeIdle
    /\ call = "idle" /\ ret = NoRet /\ err = "none"
    /\ args \in ProducerInputs

Call_score_producer ==
    /\ call = "idle"
    /\ args \in ProducerInputs
    /\ ret' = score_producer(ProducerString(args))
    /\ call' = "score_producer"
    /\ UNCHANGED <<args, err, aggVars, pipeVars>>

NextProducer == Call_score_producer
SpecProducer == InitProducer /\ [][NextProducer]_vars

\* C25: for a non-empty producer string that matches a pattern of the rule
\* table, score_producer returns the score of the first rule class, in
\* table order, that holds a matching pattern; no earlier test overrides it.
C25_FirstRuleClassWins ==
    (/\ call = "score_producer"
     /\ args # <<>>
     /\ \E i \in 1..Len(args) : WordClass[args[i]] # {})
        => LET matched == UNION {WordClass[args[i]] : i \in 1..Len(args)}
               first   == CHOOSE c \in matched : \A d \in matched : c <= d
           IN  ret = <<5, 10, 25, 40, 55, 65>>[first]

----------------------------------------------------------------------------
(* Part C.2: FontAnomalyDetector                                            *)
(* (aws/analyze_file/font_anomalies/font_anomaly_detector.py).              *)

\* ---- _normalize_font_name ----
\* A font name is the sequence of its characters.

\* longest font name enumerated exhaustively
MaxNameLen == 4

\* str.lower() on the letters the model uses
UpperCase ==
    ("A" :> "a") @@ ("B" :> "b") @@ ("C" :> "c") @@ ("E" :> "e") @@ ("H" :> "h")
    @@ ("I" :> "i") @@ ("L" :> "l") @@ ("T" :> "t") @@ ("V" :> "v")
Lower(s) == [i \in 1..Len(s) |-> IF s[i] \in DOMAIN UpperCase THEN UpperCase[s[i]] ELSE s[i]]

\* the positions of the characters of cs in s
Positions(s, cs) == {i \in 1..Len(s) : s[i] \in cs}
First(S) == CHOOSE i \in S : \A j \in S : i <= j

\* re.sub(r"^[^+]+\+", "", base): at the start of the string, one or more
\* characters other than "+" followed by a "+" are removed, once
DropSubsetPrefix(s) ==
    LET plus == Positions(s, {"+"})
    IN  IF plus # {} /\ First(plus) > 1 THEN SubSeq(s, First(plus) + 1, Len(s)) ELSE s

\* re.split(r"[-,]", base)[0]
BeforeStyle(s) ==
    LET seps == Positions(s, {"-", ","})
    IN  IF seps # {} THEN SubSeq(s, 1, First(seps) - 1) ELSE s

_normalize_font_name(font) == BeforeStyle(DropSubsetPrefix(Lower(font)))

\* the names of the documentation and of the specification
ArialBold == <<"A", "r", "i", "a", "l", "-", "B", "o", "l", "d">>
arial == <<"a", "r", "i", "a", "l">>
HelveticaItalicBold ==
    <<"H", "E", "L", "V", "E", "T", "I", "C", "A", "+",
      "I", "t", "a", "l", "i", "c", "-", "B", "o", "l", "d">>
HelveticaItalic ==
    <<"H", "e", "l", "v", "e", "t", "i", "c", "a", "+", "I", "t", "a", "l", "i", "c">>
helvetica == <<"h", "e", "l", "v", "e", "t", "i", "c", "a">>
\* a subset tag in front of a name that carries a "+" of its own
SubsetArialItalic ==
    <<"A", "B", "C", "+">> \o arial \o <<"+", "I", "t", "a", "l", "i", "c">>

FontNames ==
    SeqsBetween({"A", "a", "b", "+", "-", ","}, 1, MaxNameLen)
    \cup {ArialBold, arial, HelveticaItalicBold, HelveticaItalic, helvetica, SubsetArialItalic}

InitNormalize ==
    /\ call = "idle"
    /\ args \in FontNames
    /\ ret = NoRet
    /\ err = "none"
    /\ AggIdle
    /\ PipeIdle

\* norm = self._normalize_font_name(f)
Call_normalize_font_name ==
    /\ call = "idle"
    /\ call' = "_normalize_font_name"
    /\ ret' = _normalize_font_name(args)
    /\ UNCHANGED <<args, err, aggVars, pipeVars>>

NextNormalize == Call_normalize_font_name
SpecNormalize == InitNormalize /\ [][NextNormalize]_vars

\* C15 as claimed: _normalize_font_name is idempotent for every font name,
\* names with several "+" included, and collapses variants:
\* normalize("Arial-Bold") = normalize("arial") = "arial" and
\* normalize("HELVETICA+Italic-Bold") = normalize("helvetica").
C15_IdempotentCollapsing ==
    call = "_normalize_font_name" =>
        /\ _normalize_font_name(ret) = ret
        /\ args = ArialBold => (ret = arial /\ _normalize_font_name(arial) = arial)
        /\ args = HelveticaItalicBold => ret = _normalize_font_name(helvetica)

\* ---- _wilson_upper_bound and _dynamic_doc_threshold ----
\* A float in [0, 1] is a fixed-point number counted in units of 1e-7
\* (Unit of them make 1.0); intermediate quantities of the Wilson formula
\* are carried in units of 1e-4 (Fine of them make 1.0).  Every division
\* and root rounds down.

Unit == 10 ^ 7
Fine == 10 ^ 4

\* FontAnomalyDetector(): rare_k_max = 3, ci_z = 1.64, alpha = 0.8
RARE_K_MAX == 3
CI_Z_PCT == 164
ALPHA_PCT == 80
\* self.alpha = max(0.0, min(0.95, alpha))
ALPHA_MAX_PCT == 95
\* max_cap = 0.35, the nudge 1e-6 and the floor 0.001 of _dynamic_doc_threshold
MAX_CAP == 3500000
NUDGE == 10
T_DOC_FLOOR == 10000

\* largest r in lo..hi with r * r <= n
RECURSIVE ISqrtIn(_, _, _)
ISqrtIn(n, lo, hi) ==
    IF lo = hi THEN lo
    ELSE LET mid == (lo + hi + 1) \div 2
         IN  IF mid * mid <= n THEN ISqrtIn(n, mid, hi) ELSE ISqrtIn(n, lo, mid - 1)
ISqrt(n) == ISqrtIn(n, 0, 46340)

\* the first n decimal digits of r / d, for 0 <= r < d
RECURSIVE FracDigits(_, _, _)
FracDigits(r, d, n) ==
    IF n = 0 THEN 0
    ELSE ((r * 10) \div d) * 10 ^ (n - 1) + FracDigits((r * 10) % d, d, n - 1)

\* _wilson_upper_bound(count, total, z), in units of 1e-7
_wilson_upper_bound(count, total, z_pct) ==
    IF total <= 0 THEN 0
    ELSE LET zz     == z_pct * z_pct                       \* z * z, 1e-4
             spread == 4 * count * (total - count)          \* 4 * total * phat * (1 - phat) * total
             inner  == zz + (spread \div total) * Fine + ((spread % total) * Fine) \div total
             root   == IF inner <= 200000 THEN ISqrt(inner * Fine)
                       ELSE ISqrt(inner) * 100             \* math.sqrt(...), 1e-4
             rad    == (z_pct * root) \div 100
             center == 2 * count * Fine + zz
             denom  == 2 * (total * Fine + zz)
         IN  IF center + rad >= denom THEN Unit
             ELSE FracDigits(center + rad, denom, 7)

\* the least count of the mapping font_counts
MinCount(font_counts) ==
    CHOOSE c \in {font_counts[f] : f \in DOMAIN font_counts} : \A d \in {font_counts[f] : f \in DOMAIN font_counts} : c <= d

KStar(font_counts, rare_k_max) == Min(rare_k_max, Max(1, MinCount(font_counts)))

\* _dynamic_doc_threshold(total_words, font_counts), in units of 1e-7
_dynamic_doc_threshold(total_words, font_counts) ==
    IF total_words <= 0 \/ DOMAIN font_counts = {} THEN Unit
    ELSE IF Cardinality(DOMAIN font_counts) = 1 THEN 0
    ELSE LET k_star   == KStar(font_counts, RARE_K_MAX)
             ub_k     == _wilson_upper_bound(k_star, total_words, CI_Z_PCT)
             ub_next0 == _wilson_upper_bound(Min(k_star + 1, total_words), total_words, CI_Z_PCT)
             ub_next  == IF ub_next0 <= ub_k
                         THEN Min(Unit, ub_k + Unit \div Max(1, total_words))
                         ELSE ub_next0
             alpha    == Max(0, Min(ALPHA_MAX_PCT, ALPHA_PCT))
             t_gap    == ub_k + (alpha * (ub_next - ub_k)) \div 100
             t_cap    == Min(t_gap, MAX_CAP)
             t_doc    == IF t_cap <= ub_k THEN ub_k + NUDGE ELSE t_cap
         IN  Max(T_DOC_FLOOR, t_doc)

\* ---- one call of _dynamic_doc_threshold ----

\* most occurrences of the rarest font
MaxRare == 5
\* most words with a font in a small document
MaxSmallTotal == 40
\* word counts of long documents
LargeTotals == {1000, 6000, 7000, 10000}

\* font_counts of a document with total words: a rarest font, possibly a
\* second rare one, and the body font with the rest
FontCounts(total) ==
    {("rare" :> r) @@ ("body" :> total - r) : r \in 1..MaxRare}
    \cup {("rare" :> r) @@ ("other" :> s) @@ ("body" :> total - r - s) :
            r \in 1..MaxRare, s \in 1..(MaxRare + 1)}

ThresholdInputs ==
    UNION {{[total_words |-> n, font_counts |-> fc] : fc \in FontCounts(n)} :
              n \in (10..MaxSmallTotal) \cup LargeTotals}
    \cup {[total_words |-> 0, font_counts |-> <<>>]}
    \cup {[total_words |-> n, font_counts |-> ("body" :> n)] : n \in 1..MaxSmallTotal}

InitThreshold ==
    /\ call = "idle"
    /\ args \in ThresholdInputs
    /\ ret = NoRet
    /\ err = "none"
    /\ AggIdle
    /\ PipeIdle

\* t_doc = self._dynamic_doc_threshold(total_with_font, font_counts)
Call_dynamic_doc_threshold ==
    /\ call = "idle"
    /\ call' = "_dynamic_doc_threshold"
    /\ ret' = _dynamic_doc_threshold(args.total_words, args.font_counts)
    /\ UNCHANGED <<args, err, aggVars, pipeVars>>

NextThreshold == Call_dynamic_doc_threshold
SpecThreshold == InitThreshold /\ [][NextThreshold]_vars

\* `if ub < t_doc` of _detect_font_anomaly: a font with cnt occurrences is flagged
Flagged(cnt, total, t_doc) == _wilson_upper_bound(cnt, total, CI_Z_PCT) < t_doc

\* C16 as claimed: for a document with at least 2 distinct fonts and
\* total_with_font >= 10, however large, the threshold returned flags a
\* font with k_star occurrences and flags no font with k_star + 1 or more,
\* where k_star = min(rare_k_max, max(1, k_min)).
C16_SeparatesKStar ==
    (/\ call = "_dynamic_doc_threshold"
     /\ Cardinality(DOMAIN args.font_counts) >= 2
     /\ args.total_words >= 10)
    => LET fc     == args.font_counts
           k_min  == CHOOSE c \in {fc[f] : f \in DOMAIN fc} : \A f \in DOMAIN fc : c <= fc[f]
           k_star == Min(3, Max(1, k_min))
       IN  /\ Flagged(k_star, args.total_words, ret)
           /\ ~Flagged(k_star + 1, args.total_words, ret)
           /\ \A f \in DOMAIN fc :
                 fc[f] >= k_star + 1 => ~Flagged(fc[f], args.total_words, ret)

\* ---- detect ----
\* A word record: text, font (NoFont for None, else the name, possibly
\* empty), bbox <<x0, y0, x1, y1>> and page.  ocr_output is given with the
\* page numbers detect adds (words_with_pages).  What the regular
\* expressions find in a text is a property of the text: the texts that
\* match a context marker and those that match an ignore pattern.

\* longest document enumerated
MaxWords == 3

\* header_ratio = 0.05 and footer_start_ratio = 0.95, in percent
HEADER_RATIO_PCT == 5
FOOTER_START_RATIO_PCT == 95

NoFont == [some |-> FALSE, name |-> <<>>]
Font(name) == [some |-> TRUE, name |-> name]
\* `if f:` for f = w.get("font")
HasFontName(w) == w.font.some /\ w.font.name # <<>>

\* re.search over ITA_TEXT_MARKERS / ITA_TEMPLATE_CODE_PATTERNS, IGNORECASE
ContextMarkerTexts == {"pakid hashuma"}
IgnorePatternTexts == {"is97b", "IS105"}

Word(text, font, y0, y1, page) ==
    [text |-> text, font |-> font, bbox |-> <<10, y0, 60, y1>>, page |-> page]

WordKinds ==
    {Word("pakid hashuma", Font(arial), 40, 50, 1),
     Word("is97b", Font(<<"b">>), 40, 50, 1),
     Word("IS105", Font(<<"b", "-", "B">>), 0, 5, 1),
     Word("is97b", Font(<<"b">>), 48, 50, 2),
     Word("page", Font(ArialBold), 95, 100, 1),
     Word("scan", NoFont, 40, 50, 1),
     Word("", Font(<<>>), 0, 5, 1)}

\* _has_context_markers
_has_context_markers(words) == \E i \in 1..Len(words) : words[i].text \in ContextMarkerTexts

\* _page_max_y_map()[page], 0 for a page without words
PageHeight(words, page) ==
    LET ys == {words[i].bbox[4] : i \in {j \in 1..Len(words) : words[j].page = page}}
    IN  IF ys = {} THEN 0 ELSE CHOOSE y \in ys : \A z \in ys : y >= z

\* _is_in_header_footer
_is_in_header_footer(bbox, page_height) ==
    IF bbox = <<>> \/ page_height <= 0 THEN FALSE
    ELSE \/ 100 * bbox[4] <= HEADER_RATIO_PCT * page_height
         \/ 100 * bbox[2] >= FOOTER_START_RATIO_PCT * page_height

\* the context flag is not consulted
_should_ignore_word_any_document(w, has_ctx, page_height) ==
    IF w.text = "" THEN FALSE
    ELSE IF w.text \notin IgnorePatternTexts THEN FALSE
    ELSE _is_in_header_footer(w.bbox, page_height)

\* _should_ignore_word, with ignore_only_in_header_footer = True
_should_ignore_word(w, has_ctx, page_height) ==
    IF ~has_ctx THEN FALSE
    ELSE IF w.text = "" THEN FALSE
    ELSE IF w.text \notin IgnorePatternTexts THEN FALSE
    ELSE _is_in_header_footer(w.bbox, page_height)

\* the positions of words_filtered in words_with_pages, in order
RECURSIVE Filter(_, _)
Filter(words, i) ==
    IF i = 0 THEN <<>>
    ELSE LET rest == Filter(words, i - 1)
         IN  IF _should_ignore_word(words[i], _has_context_markers(words),
                                    PageHeight(words, words[i].page))
             THEN rest ELSE Append(rest, i)

\* _detect_font_anomaly over the words at positions kept: the font
\* statistics and one record per flagged word (its position; the record's
\* p_value and score are not part of the model)
_detect_font_anomaly(words, kept) ==
    LET counted == {i \in Range(kept) : HasFontName(words[i])}
        norm(i) == _normalize_font_name(words[i].font.name)
        names   == {norm(i) : i \in counted}
        font_counts == [n \in names |-> Cardinality({i \in counted : norm(i) = n})]
        total_with_font == Cardinality(counted)
        t_doc   == _dynamic_doc_threshold(total_with_font, font_counts)
    IN  [results |-> SelectSeq(kept, LAMBDA i :
                        /\ HasFontName(words[i])
                        /\ _wilson_upper_bound(font_counts[norm(i)], total_with_font, CI_Z_PCT)
                           < t_doc),
         font_counts |-> font_counts,
         total_with_font |-> total_with_font,
         words_filtered |-> kept]

\* _detect_image_anomaly over the words at positions kept: which words the
\* outlier model reports depends on the pixels, so any sub-list of the words
\* it was given may come back; StandardScaler rejects an empty feature array
ImageResults(kept) ==
    {SelectSeq(kept, LAMBDA i : i \in S) : S \in SUBSET Range(kept)}

\* the words a document is padded with: body text in the dominant font
FillerWords == 10
Filler == Word("the", Font(arial), 40, 50, 1)

RECURSIVE Documents(_)
Documents(n) ==
    IF n = 0 THEN {<<>>}
    ELSE Documents(n - 1) \cup
         {Append(d, w) : d \in {e \in Documents(n - 1) : Len(e) = n - 1}, w \in WordKinds}

NoImage == "None"
Images == {NoImage, "image"}

DetectInputs ==
    {[words |-> d \o Repeat(Filler, f), image |-> im] :
        d \in Documents(MaxWords), f \in {0, FillerWords}, im \in Images}

InitDetect ==
    /\ AggIdle /\ PipeIdle
    /\ call = "idle" /\ ret = NoRet /\ err = "none"
    /\ args \in DetectInputs

\* detect(ocr_output, image)
Call_detect ==
    /\ call = "idle"
    /\ args \in DetectInputs
    /\ LET words    == args.words
           kept     == Filter(words, Len(words))
           has_font == \E i \in 1..Len(words) : words[i].font.some
       IN  IF has_font
           THEN /\ ret' = _detect_font_anomaly(words, kept)
                /\ err' = "none"
           ELSE IF args.image # NoImage
           THEN IF kept = <<>>
                THEN /\ ret' = NoRet
                     /\ err' = "ValueError"
                ELSE /\ \E r \in ImageResults(kept) :
                          ret' = [results |-> r, font_counts |-> <<>>,
                                  total_with_font |-> 0, words_filtered |-> kept]
                     /\ err' = "none"
           ELSE /\ ret' = NoRet
                /\ err' = "ValueError"
    /\ call' = "detect"
    /\ UNCHANGED <<args, aggVars, pipeVars>>

NextDetect == Call_detect

SpecDetect == InitDetect /\ [][NextDetect]_vars

Detected == call = "detect"

\* the three conditions of the suppression rule, stated on the document
DocumentMatchesMarker(words) == \E i \in 1..Len(words) : words[i].text \in ContextMarkerTexts
LiesInBand(words, i) ==
    LET H == PageHeight(words, words[i].page)
    IN  \/ 100 * words[i].bbox[4] <= HEADER_RATIO_PCT * H
        \/ 100 * words[i].bbox[2] >= FOOTER_START_RATIO_PCT * H
Excluded(i) == i \in 1..Len(args.words) /\ i \notin Range(ret.words_filtered)
CountedWords(name) ==
    {i \in 1..Len(args.words) :
        /\ ~Excluded(i)
        /\ HasFontName(args.words[i])
        /\ _normalize_font_name(args.words[i].font.name) = name}
FontPath == Detected /\ err = "none" /\ DOMAIN ret.font_counts # {}

\* C17: detect excludes a word only if the document matches a context
\* marker, the word's text matches an ignore pattern and the word lies in
\* the header or footer band of its page; without a context marker no word
\* is excluded.  An excluded word is in no output record and in no font
\* count, and every other word with a font name is counted under its
\* normalized name.
C17_SuppressionRule ==
    (Detected /\ err = "none") =>
        LET words == args.words
        IN  /\ \A i \in 1..Len(words) :
                 Excluded(i) => /\ DocumentMatchesMarker(words)
                                /\ words[i].text \in IgnorePatternTexts
                                /\ LiesInBand(words, i)
            /\ ~DocumentMatchesMarker(words) => \A i \in 1..Len(words) : ~Excluded(i)
            /\ \A k \in 1..Len(ret.results) : ~Excluded(ret.results[k])
            /\ \A i \in 1..Len(words) :
                 (~Excluded(i) /\ HasFontName(words[i])) =>
                     LET n == _normalize_font_name(words[i].font.name)
                     IN  /\ n \in DOMAIN ret.font_counts
                         /\ ret.font_counts[n] = Cardinality(CountedWords(n))
            /\ \A n \in DOMAIN ret.font_counts :
                 /\ CountedWords(n) # {}
                 /\ ret.font_counts[n] = Cardinality(CountedWords(n))
            /\ (\E i \in 1..Len(words) : words[i].font.some) =>
                 ret.total_with_font =
                     Cardinality({i \in 1..Len(words) : ~Excluded(i) /\ HasFontName(words[i])})

\* a marked document where a footer code is excluded, another word of the
\* same rare font is kept, counted and reported
C17_Witness ==
    /\ FontPath
    /\ DocumentMatchesMarker(args.words)
    /\ \E i \in 1..Len(args.words) : Excluded(i) /\ HasFontName(args.words[i])
    /\ Len(ret.results) > 0

\* an unmarked document keeps its footer code, which is counted and reported
C17_UnmarkedKept ==
    /\ FontPath
    /\ ~DocumentMatchesMarker(args.words)
    /\ \E k \in 1..Len(ret.results) :
         /\ args.words[ret.results[k]].text \in IgnorePatternTexts
         /\ LiesInBand(args.words, ret.results[k])

\* C18: with no font metadata on any word and no image, detect raises
\* MissingDetectionInputError and returns nothing.
C18_MissingInputError ==
    (/\ Detected
     /\ \A i \in 1..Len(args.words) : ~args.words[i].font.some
     /\ args.image = NoImage)
        => err = "MissingDetectionInputError"

(***************************************************************************)
(* Part C.3: severity and status banding (ClientConfig)                    *)
(***************************************************************************)

\* longest band list enumerated
MaxBands == 2

\* Severity and Status enum values
SeverityValues == {"low", "medium", "high", "critical"}
StatusValues == {"pass", "warn", "risk", "error", "skipped"}

\* str.lower() on the labels that occur in the enumerated configurations
lower(label) ==
    CASE label = "High" -> "high"
      [] label = "Risk" -> "risk"
      [] OTHER -> label

Band(min, label) == [min |-> min, label |-> label]
BandMins == {0, 40, 80}
SeverityLabels == {"low", "High", "severe"}
StatusLabels == {"pass", "Risk", "ok"}

\* every list of at most n bands over these labels
BandLists(labels, n) == SeqsUpTo({Band(m, l) : m \in BandMins, l \in labels}, n)

\* scores passed to the mapping helpers; 101 is outside [0, 100]
BandScores == {0, 39, 40, 80, 100, 101}

\* _assert_score, for an int score
_assert_score(score) == IF score < 0 \/ score > 100 THEN "ValueError" ELSE "none"

\* `>` in place of `>=`
FirstMatchStrict(bands, score) ==
    LET hits == {i \in 1..Len(bands) : score > bands[i].min}
    IN  IF hits = {} THEN 0 ELSE CHOOSE i \in hits : \A j \in hits : i <= j

\* for band in bands: if score >= band.min -- the first such position, 0 if none
FirstMatch(bands, score) ==
    LET hits == {i \in 1..Len(bands) : score >= bands[i].min}
    IN  IF hits = {} THEN 0 ELSE CHOOSE i \in hits : \A j \in hits : i <= j

Raised(e) == [err |-> e, value |-> "", band |-> 0]
Returned(v, i) == [err |-> "none", value |-> v, band |-> i]

\* Enum(value): the member, or ValueError
EnumOf(values, label, i) ==
    IF lower(label) \in values THEN Returned(lower(label), i) ELSE Raised("ValueError")

\* ClientConfig.severity_for
severity_for(bands, score) ==
    IF _assert_score(score) # "none" THEN Raised("ValueError")
    ELSE LET i == FirstMatch(bands, score)
         IN  IF i > 0 THEN EnumOf(SeverityValues, bands[i].label, i)
             ELSE IF bands = <<>> THEN Raised("IndexError")
             ELSE EnumOf(SeverityValues, bands[Len(bands)].label, Len(bands))

\* ClientConfig.status_for
status_for(bands, score) ==
    IF _assert_score(score) # "none" THEN Raised("ValueError")
    ELSE LET i == FirstMatch(bands, score)
         IN  IF i > 0
             THEN IF lower(bands[i].label) \in StatusValues
                  THEN Returned(lower(bands[i].label), i)
                  ELSE Returned("error", i)
             ELSE IF bands = <<>> THEN Raised("IndexError")
             ELSE EnumOf(StatusValues, bands[Len(bands)].label, Len(bands))

\* _create_fraud_report from the summary text on: build_manual_summary_text
\* calls cfg.severity_for(overall_score) first, then Overall(...) is built
\* with client_config.severity_for(overall_risk_score); nothing is caught
OverallSeverity(bands, overall_risk_score) ==
    LET summary == severity_for(bands, overall_risk_score)
    IN  IF summary.err # "none" THEN summary
        ELSE severity_for(bands, overall_risk_score)

BandInputs ==
    {[fn |-> "severity_for", bands |-> bs, score |-> s] :
        bs \in BandLists(SeverityLabels, MaxBands), s \in BandScores}
    \cup
    {[fn |-> "status_for", bands |-> bs, score |-> s] :
        bs \in BandLists(StatusLabels, MaxBands), s \in BandScores}
    \cup
    {[fn |-> "_create_fraud_report", bands |-> bs, score |-> s] :
        bs \in BandLists(SeverityLabels, MaxBands), s \in BandScores \ {101}}

InitBands ==
    /\ AggIdle /\ PipeIdle
    /\ call = "idle" /\ ret = NoRet /\ err = "none"
    /\ args \in BandInputs

Call_severity_for ==
    /\ call = "idle"
    /\ args \in BandInputs
    /\ args.fn = "severity_for"
    /\ ret' = severity_for(args.bands, args.score)
    /\ err' = ret'.err
    /\ call' = "severity_for"
    /\ UNCHANGED <<args, aggVars, pipeVars>>

Call_status_for ==
    /\ call = "idle"
    /\ args \in BandInputs
    /\ args.fn = "status_for"
    /\ ret' = status_for(args.bands, args.score)
    /\ err' = ret'.err
    /\ call' = "status_for"
    /\ UNCHANGED <<args, aggVars, pipeVars>>

Call_overall_severity ==
    /\ call = "idle"
    /\ args \in BandInputs
    /\ args.fn = "_create_fraud_report"
    /\ ret' = OverallSeverity(args.bands, args.score)
    /\ err' = ret'.err
    /\ call' = "_create_fraud_report"
    /\ UNCHANGED <<args, aggVars, pipeVars>>

NextBands == Call_severity_for \/ Call_status_for \/ Call_overall_severity

SpecBands == InitBands /\ [][NextBands]_vars

Banded == call \in {"severity_for", "status_for"}
EnumValues == IF args.fn = "status_for" THEN StatusValues ELSE SeverityValues
Recognized(band) == lower(band.label) \in EnumValues
ValidScore == args.score \in 0..100
\* configured from the highest min_score to the lowest
Descending(bands) == \A i \in 1..Len(bands) - 1 : bands[i].min > bands[i + 1].min
\* the bands whose min_score does not exceed the score
Matching(bands, score) == {i \in 1..Len(bands) : bands[i].min <= score}
\* position i holds the greatest min_score among the positions in S
Greatest(bands, S, i) == i \in S /\ \A j \in S : bands[j].min <= bands[i].min
Lowest(bands, i) == i \in 1..Len(bands) /\ \A j \in 1..Len(bands) : bands[i].min <= bands[j].min

\* C19 as stated: for any configured band list, severity_for and status_for
\* return the label of the band with the greatest min_score not exceeding
\* the score, and the lowest band when no band matches.
C19_GreatestBandAnyList ==
    (/\ Banded /\ ValidScore
     /\ args.bands # <<>>
     /\ \A i \in 1..Len(args.bands) : Recognized(args.bands[i]))
        => /\ err = "none"
           /\ IF Matching(args.bands, args.score) # {}
              THEN \E i \in Matching(args.bands, args.score) :
                     /\ Greatest(args.bands, Matching(args.bands, args.score), i)
                     /\ ret.value = lower(args.bands[i].label)
              ELSE \E i \in 1..Len(args.bands) :
                     /\ Lowest(args.bands, i)
                     /\ ret.value = lower(args.bands[i].label)

\* C19, amended: severity_for and status_for scan a non-empty band list in
\* its configured order and select the first band whose min_score <= score,
\* or the last configured band when none matches; for a list configured
\* from the highest min_score to the lowest that band is the one with the
\* greatest min_score not exceeding the score, or the lowest band.  The
\* label of the selected band, lower-cased, is returned when it is a
\* recognized enum value.
C19_FirstInConfiguredOrder ==
    (Banded /\ ValidScore /\ args.bands # <<>>) =>
        LET bands == args.bands
            hits  == Matching(bands, args.score)
            sel   == IF hits = {} THEN Len(bands)
                     ELSE CHOOSE i \in hits : \A j \in hits : i <= j
        IN  /\ Recognized(bands[sel]) =>
                /\ err = "none"
                /\ ret.band = sel
                /\ ret.value = lower(bands[sel].label)
            /\ Descending(bands) =>
                IF hits = {} THEN Lowest(bands, sel) ELSE Greatest(bands, hits, sel)

\* a descending list of at least two bands where a band after the first is
\* selected because the score is exactly its min_score
C19_Witness ==
    /\ Banded /\ ValidScore /\ err = "none"
    /\ Len(args.bands) >= 2 /\ Descending(args.bands)
    /\ ret.band > 1
    /\ args.bands[ret.band].min = args.score

\* the fallback: no band matches and the last, lowest band is returned
C19_FallbackWitness ==
    /\ Banded /\ ValidScore /\ err = "none"
    /\ Len(args.bands) >= 2 /\ Descending(args.bands)
    /\ Matching(args.bands, args.score) = {}
    /\ ret.band = Len(args.bands)

\* C20: a band with an unrecognized label never makes scoring raise:
\* status_for returns the error status for it, when it is the matched band
\* and when it is the fallback band, and the Overall severity of
\* _create_fraud_report is computed without an exception.
C20_UnrecognizedLabelNeverRaises ==
    (/\ call # "idle" /\ ValidScore
     /\ args.bands # <<>>
     /\ \E i \in 1..Len(args.bands) : ~Recognized(args.bands[i]))
        => /\ call \in {"status_for", "_create_fraud_report"} => err = "none"
           /\ call = "status_for" =>
                LET hits == Matching(args.bands, args.score)
                    sel  == IF hits = {} THEN Len(args.bands)
                            ELSE CHOOSE i \in hits : \A j \in hits : i <= j
                IN  ~Recognized(args.bands[sel]) => ret.value = "error"

(***************************************************************************)
(* Part C.4: LLMRelevanceClassifier.classify                               *)
(* (aws/analyze_file/font_anomalies/llm_relevance_classifier.py).          *)
(*                                                                         *)
(* classify groups the anomalies by page and makes one Converse call per   *)
(* page, in the order in which the pages first appear.  The answer of the  *)
(* model is not under the program's control: the call raises, or returns a *)
(* text that is not JSON, a JSON value that is not an object, an object    *)
(* whose "verdicts" is null, or an object with a list of verdicts of any   *)
(* length.  A verdict of the list is a JSON object or some other value.    *)
(***************************************************************************)
MaxAnomalies == 2

AnomalyTexts == {"a", "b"}
AnomalyPages == {1, 2}
Anomaly(t, p) == [text |-> t, page |-> p]
AnomalyLists == SeqsUpTo({Anomaly(t, p) : t \in AnomalyTexts, p \in AnomalyPages}, MaxAnomalies)

\* a value of the "verdicts" list: json is "object" or "string"; label is the
\* value of the "label" key, "None" for a JSON null and NoKey when the object
\* has no such key; confidence is the text of the "confidence" value
NoKey == "<no key>"
RawVerdict(j, l, c) == [json |-> j, label |-> l, confidence |-> c]
RawVerdicts ==
    { RawVerdict("object", "core", "0.9"),
      RawVerdict("object", NoKey, "0.9"),
      RawVerdict("object", "None", "0.9"),
      RawVerdict("object", "core", "high"),
      RawVerdict("string", "", "") }

Response(k, vs) == [kind |-> k, verdicts |-> vs]
Responses ==
    {Response(k, <<>>) : k \in {"raises", "not_json", "not_object", "null_verdicts"}}
    \cup {Response("json", vs) : vs \in SeqsUpTo(RawVerdicts, MaxAnomalies)}

upper(s) ==
    CASE s = "core" -> "CORE"
      [] s = "None" -> "NONE"
      [] OTHER -> s

\* float(v.get("confidence", 0.7)), in tenths; -1 when float() raises
float(c) ==
    CASE c = "0.9" -> 9
      [] c = NoKey -> 7
      [] OTHER -> -1

Verdict(l, r, c) == [label |-> l, reason |-> r, confidence |-> c]
Fallback == Verdict("ANCILLARY", "fallback", 6)
DefaultPad == Verdict("ANCILLARY", "default-pad", 6)

\* the body of `for v in verdicts[:expected]`: v.get raises on a value that
\* is not an object, float raises on a text that is not a number
NormalizeRaises(v) == v.json # "object" \/ float(v.confidence) < 0
Normalize(v) ==
    Verdict(upper(IF v.label = NoKey THEN "ANCILLARY" ELSE v.label), "", float(v.confidence))

PadNone(out, expected) == out
PadDefault(out, expected) ==
    out \o [i \in 1..(expected - Len(out)) |-> DefaultPad]

\* _parse_verdicts: raised, or the list it returns
_parse_verdicts(resp, expected) ==
    LET verdicts == IF resp.kind = "json" THEN resp.verdicts ELSE <<>>
        taken    == Prefix(verdicts, expected)
    IN  IF resp.kind = "null_verdicts" \/ \E i \in 1..Len(taken) : NormalizeRaises(taken[i])
        THEN [raised |-> TRUE, out |-> <<>>]
        ELSE [raised |-> FALSE,
              out |-> PadDefault([i \in 1..Len(taken) |-> Normalize(taken[i])], expected)]

\* page_groups: the pages in the order of their first anomaly, and the
\* positions of the anomalies of one page
RECURSIVE PageOrder(_, _)
PageOrder(as, seen) ==
    IF as = <<>> THEN <<>>
    ELSE IF Head(as).page \in seen THEN PageOrder(Tail(as), seen)
    ELSE <<Head(as).page>> \o PageOrder(Tail(as), seen \cup {Head(as).page})

Items(as, page) == SelectSeq([i \in 1..Len(as) |-> i], LAMBDA i : as[i].page = page)

\* lines 77-83: the verdicts of one page, whatever the call did
PageVerdicts(resp, n) ==
    LET parsed == _parse_verdicts(resp, n)
    IN  IF resp.kind = "raises" \/ parsed.raised THEN [i \in 1..n |-> Fallback]
        ELSE parsed.out

WithRelevance(a, v) == [text |-> a.text, page |-> a.page, relevance |-> v]

\* lines 86-87: zip(items, verdicts) stops at the shorter of the two
Merge(results, as, items, verdicts) ==
    [i \in 1..Len(results) |->
        IF \E k \in 1..Min(Len(items), Len(verdicts)) : items[k] = i
        THEN LET k == CHOOSE k \in 1..Len(items) : items[k] = i
             IN  WithRelevance(as[i], verdicts[k])
        ELSE results[i]]

InitClassify ==
    /\ AggIdle /\ PipeIdle
    /\ call = "idle" /\ ret = NoRet /\ err = "none"
    /\ args \in AnomalyLists

\* a verdict the loop of _parse_verdicts cannot read
CannotParse(v) == v.json # "object" \/ v.confidence \notin {"0.9", NoKey}

\* the k-th anomaly of a page with n anomalies has no verdict the program can
\* read in the answer resp: the call failed, the answer holds no list of
\* verdicts, the list is too short to reach the anomaly, or a verdict meant
\* for the page cannot be parsed
Degraded(resp, k, n) ==
    \/ resp.kind # "json"
    \/ k > Len(resp.verdicts)
    \/ \E j \in 1..Min(n, Len(resp.verdicts)) : CannotParse(resp.verdicts[j])

\* lines 36-45: the early return, or the grouping; degraded collects the
\* anomalies for which the Converse call of their page gave no readable
\* verdict
Call_classify ==
    /\ call = "idle"
    /\ args \in AnomalyLists
    /\ IF args = <<>>
       THEN /\ call' = "returned"
            /\ ret' = [results |-> <<>>, pending |-> <<>>, degraded |-> {}]
       ELSE /\ call' = "classify"
            /\ ret' = [results |-> [i \in 1..Len(args) |-> NoneV],
                       pending |-> PageOrder(args, {}), degraded |-> {}]
    /\ UNCHANGED <<args, err, aggVars, pipeVars>>

\* lines 65-87: one turn of `for page, items in page_groups.items()`
Converse ==
    /\ call = "classify"
    /\ ret.pending # <<>>
    /\ \E resp \in Responses :
        LET page  == Head(ret.pending)
            items == Items(args, page)
        IN  ret' = [results |-> Merge(ret.results, args, items, PageVerdicts(resp, Len(items))),
                    pending |-> Tail(ret.pending),
                    degraded |-> ret.degraded \cup
                        {items[k] : k \in {k \in 1..Len(items) : Degraded(resp, k, Len(items))}}]
    /\ UNCHANGED <<call, args, err, aggVars, pipeVars>>

\* line 90
Return_classify ==
    /\ call = "classify"
    /\ ret.pending = <<>>
    /\ ret' = [ret EXCEPT !.results = SelectSeq(ret.results, LAMBDA r : r # NoneV)]
    /\ call' = "returned"
    /\ UNCHANGED <<args, err, aggVars, pipeVars>>

NextClassify == Call_classify \/ Converse \/ Return_classify
SpecClassify == InitClassify /\ [][NextClassify]_vars

Classified == call = "returned"

\* C28: classify returns one record per input anomaly, in input order, each
\* the input record with a relevance verdict added; an anomaly whose page
\* got a failed call, too few verdicts or verdicts that cannot be parsed is
\* labelled ANCILLARY, and no exception leaves classify.
C28_OnePerAnomalyDefaultAncillary ==
    Classified =>
        /\ err = "none"
        /\ Len(ret.results) = Len(args)
        /\ \A i \in 1..Len(args) :
            /\ DOMAIN ret.results[i] = {"text", "page", "relevance"}
            /\ ret.results[i].text = args[i].text
            /\ ret.results[i].page = args[i].page
            /\ i \in ret.degraded => ret.results[i].relevance.label = "ANCILLARY"

\* two anomalies of one page, one verdict returned: the second is padded
C28_Witness ==
    /\ Classified
    /\ Len(args) = 2 /\ args[1].page = args[2].page /\ args[1].text # args[2].text
    /\ ret.degraded = {2}
    /\ ret.results[1].relevance.label = "CORE"
    /\ ret.results[2].relevance = DefaultPad

(***************************************************************************)
(* Part D: lambda_handler over the S3 records of one event                 *)
(* (aws/analyze_file/lambda_function.py).                                  *)
(*                                                                         *)
(* The handler walks event["Records"]; for each record _process_s3_record  *)
(* reads the bucket and key, downloads the file and runs _process_record,  *)
(* which is Part B.  A record is "s3" when it carries s3.bucket.name and   *)
(* s3.object.key and "malformed" when one of them is missing.  begun and   *)
(* finished list the records whose processing started and returned.        *)
(***************************************************************************)
MaxRecords == 2

RecordKinds == {"s3", "malformed"}
Events == SeqsUpTo(RecordKinds, MaxRecords)

Progress(i, b, f, s) == [i |-> i, begun |-> b, finished |-> f, statusCode |-> s]

InitHandler ==
    /\ AggIdle /\ PipeIdle
    /\ call = "idle" /\ ret = NoRet /\ err = "none"
    /\ args \in Events

\* lines 146-151: the handler enters the try block with an S3 event
Call_lambda_handler ==
    /\ call = "idle"
    /\ args \in Events
    /\ call' = "lambda_handler"
    /\ ret' = Progress(0, <<>>, <<>>, 0)
    /\ UNCHANGED <<args, err, aggVars, pipeVars>>

\* lines 152-153 and 93-104: the loop takes the next record; reading its keys
\* or downloading the file raises, or _process_record starts
ProcessS3Record ==
    /\ call = "lambda_handler"
    /\ pc = "idle"
    /\ ret.i < Len(args)
    /\ ret' = [ret EXCEPT !.begun = Append(@, ret.i + 1)]
    /\ \/ /\ args[ret.i + 1] = "malformed"
          /\ call' = "raised" /\ err' = "KeyError"
          /\ UNCHANGED pipeVars
       \/ /\ args[ret.i + 1] = "s3"
          /\ call' = "raised" /\ err' = "download"
          /\ UNCHANGED pipeVars
       \/ /\ args[ret.i + 1] = "s3"
          /\ pc' = "ocr"
          /\ fut' = [f \in CheckFns |-> "unsubmitted"]
          /\ res' = [f \in CheckFns |-> <<>>]
          /\ UNCHANGED <<call, err, yielded, collected, report, stored, exc, runs>>
    /\ UNCHANGED <<args, aggVars>>

\* _process_record returned: the locals of the call are gone and the loop
\* moves on
RecordReturns ==
    /\ call = "lambda_handler"
    /\ pc = "done"
    /\ ret' = [ret EXCEPT !.i = @ + 1, !.finished = Append(@, ret.i + 1)]
    /\ pc' = "idle" /\ fut' = <<>> /\ res' = <<>>
    /\ yielded' = <<>> /\ collected' = <<>> /\ report' = NoReport
    /\ stored' = {} /\ exc' = "none" /\ runs' = 0
    /\ UNCHANGED <<call, args, err, aggVars>>

\* an `except` that logs and goes on with the next record
LogAndContinue ==
    /\ call = "lambda_handler"
    /\ pc = "raised"
    /\ ret' = [ret EXCEPT !.i = @ + 1]
    /\ pc' = "idle" /\ fut' = <<>> /\ res' = <<>>
    /\ yielded' = <<>> /\ collected' = <<>> /\ report' = NoReport
    /\ stored' = {} /\ exc' = "none" /\ runs' = 0
    /\ UNCHANGED <<call, args, err, aggVars>>

\* lines 156-158: except Exception as exc: logger.error(...); raise
Reraise ==
    /\ call = "lambda_handler"
    /\ pc = "raised"
    /\ call' = "raised"
    /\ err' = exc
    /\ UNCHANGED <<args, ret, aggVars, pipeVars>>

\* lines 160-162: the loop is over
Return200 ==
    /\ call = "lambda_handler"
    /\ pc = "idle"
    /\ ret.i = Len(args)
    /\ ret' = [ret EXCEPT !.statusCode = 200]
    /\ call' = "returned"
    /\ UNCHANGED <<args, err, aggVars, pipeVars>>

NextHandler ==
    \/ Call_lambda_handler
    \/ ProcessS3Record
    \/ call = "lambda_handler" /\ pc # "idle" /\ Next
    \/ RecordReturns
    \/ Reraise
    \/ Return200
SpecHandler == InitHandler /\ [][NextHandler]_vars

Handling == call \in {"lambda_handler", "returned", "raised"}

\* C29: records are begun in event order, one at a time; statusCode 200 is
\* returned only when every record finished without an exception; when the
\* processing of a record raises, the handler raises and no later record
\* was begun.
C29_InOrderStopAtFirstFailure ==
    Handling =>
        /\ ret.begun = [j \in 1..Len(ret.begun) |-> j]
        /\ ret.finished = [j \in 1..Len(ret.finished) |-> j]
        /\ Len(ret.finished) <= Len(ret.begun)
        /\ Len(ret.begun) <= Len(ret.finished) + 1
        /\ ret.statusCode = 200 =>
              /\ call = "returned" /\ err = "none"
              /\ Len(ret.finished) = Len(args)
        /\ call = "returned" => ret.statusCode = 200
        /\ call = "raised" =>
              /\ err # "none"
              /\ ret.statusCode = 0
              /\ Len(ret.begun) = Len(ret.finished) + 1
        /\ (pc = "raised" \/ call = "raised") => Len(ret.begun) = ret.i + 1

\* the second of two records fails inside _process_record after the first
\* one was processed
C29_Witness ==
    /\ call = "raised"
    /\ Len(args) = 2
    /\ ret.finished = <<1>> /\ ret.begun = <<1, 2>>
    /\ pc = "raised" /\ err = exc

\* the first record fails: the second one is never begun
C29_FirstFails ==
    /\ call = "raised"
    /\ Len(args) = 2
    /\ ret.begun = <<1>> /\ ret.finished = <<>>

(***************************************************************************)
(* Part E: TerminationCertificateValidator._check_start_before_departure   *)
(* (aws/analyze_file/text_analysis/validators/).                           *)
(*                                                                         *)
(* An extracted field is absent from the data, or carries a text: empty,   *)
(* not a date, or a %Y-%m-%d date, which is a day number here.             *)
(***************************************************************************)
MaxCertDay == 7

FieldAbsent == [field |-> "absent", day |-> 0]
FieldEmpty == [field |-> "empty", day |-> 0]
FieldNotDate == [field |-> "text", day |-> 0]
FieldDate(d) == [field |-> "date", day |-> d]
CertificateFields ==
    {FieldAbsent, FieldEmpty, FieldNotDate} \cup {FieldDate(d) : d \in 1..MaxCertDay}

\* BaseValidator._date_from_field: None unless the text parses as a date
_date_from_field(f) == IF f.field = "date" THEN Dt(f.day) ELSE NoneV

_check_start_before_departure(data) ==
    LET start     == _date_from_field(data.job_start_date)
        departure == _date_from_field(data.job_departure_date)
    IN  IF start = NoneV
        THEN [score |-> 20, details |-> "Start date missing; treated as acceptable"]
        ELSE IF departure = NoneV
        THEN [score |-> 80, details |-> "Departure date missing"]
        ELSE IF start.v >= departure.v
        THEN [score |-> 0, details |-> "Start is on/after departure"]
        ELSE [score |-> 0, details |-> "Start is before departure"]

CertificateInputs ==
    {[job_start_date |-> s, job_departure_date |-> d] :
        s \in CertificateFields, d \in CertificateFields}

InitCertificate ==
    /\ AggIdle /\ PipeIdle
    /\ call = "idle" /\ ret = NoRet /\ err = "none"
    /\ args \in CertificateInputs

Call_check_start_before_departure ==
    /\ call = "idle"
    /\ args \in CertificateInputs
    /\ ret' = _check_start_before_departure(args)
    /\ call' = "_check_start_before_departure"
    /\ UNCHANGED <<args, err, aggVars, pipeVars>>

NextCertificate == Call_check_start_before_departure
SpecCertificate == InitCertificate /\ [][NextCertificate]_vars

StartChecked == call = "_check_start_before_departure"
HasDate(f) == f.field = "date"

\* C30: the check scores 20 when the start date is missing, 80 when the start
\* date is present and the departure date is missing, 90 when start <=
\* departure, and 0 when start > departure.
C30_ScoreTable ==
    StartChecked =>
        LET s == args.job_start_date
            d == args.job_departure_date
        IN  ret.score =
                IF ~HasDate(s) THEN 20
                ELSE IF ~HasDate(d) THEN 80
                ELSE IF s.day <= d.day THEN 90
                ELSE 0

\* what the code does on two dates: 0 in either order
C30_BothDatesScoreZero ==
    (StartChecked /\ HasDate(args.job_start_date) /\ HasDate(args.job_departure_date))
        => ret.score = 0

====
